---------------------------- MODULE Spec2Model ----------------------------
(***************************************************************************)
(* State-machine model of the terrain core of NorasWorkday:                *)
(*   LandscapeCollision (src/SRC/TERRAIN/T_COLL.cpp),                      *)
(*   Landscape          (src/SRC/TERRAIN/T_MAP.cpp),                       *)
(*   LandscapeRaw       (src/SRC/TERRAIN/T_DLNAY.CPP).                     *)
(*                                                                         *)
(* Numbers.  The program computes in float/double.  The model computes in  *)
(* exact integer arithmetic on a lattice: a world coordinate is an integer *)
(* count of Milli-ths of a world unit (0.001, the smallest literal of the  *)
(* sources), and a quotient that is not an integer is carried as a         *)
(* numerator over a stated denominator.  The inputs the actions draw are   *)
(* lattice points for which every intermediate value of the code is exact  *)
(* on the lattice, unless a definition says that it floors.                *)
(***************************************************************************)
EXTENDS Integers, Sequences, FiniteSets, TLC

\* Lattice points per world unit (0.001f is one lattice step).
Milli == 1000

Min(a, b) == IF a < b THEN a ELSE b
Max(a, b) == IF a > b THEN a ELSE b
Abs(a) == IF a < 0 THEN -a ELSE a

\* (unsigned int)a >= (unsigned int)b for 32-bit ints a, b: the conversion
\* maps a negative int v to v + 2^32, above every non-negative int.
UnsignedGE(a, b) == IF (a < 0) = (b < 0) THEN a >= b ELSE a < 0

\* floor(sqrt(sq)) by bisection; the inputs keep the radicands perfect squares,
\* so that the code's sqrt is exact.
RECURSIVE SqrtIn(_, _, _)
SqrtIn(sq, lo, hi) ==
  IF lo >= hi THEN lo
  ELSE LET mid == (lo + hi + 1) \div 2
       IN IF mid * mid <= sq THEN SqrtIn(sq, mid, hi) ELSE SqrtIn(sq, lo, mid - 1)
Sqrt(sq) == SqrtIn(sq, 0, Min(sq, 46340))

(***************************************************************************)
(*                        LandscapeCollision                               *)
(***************************************************************************)
VARIABLES
  coll,     \* the LandscapeCollision object: width, height, minX..maxZ, data
  line,     \* the activation of collideLine: arguments, locals, outputs
  pt,       \* the last point()/isPoint() query and what it returned
  stamps    \* number of mutating calls (placeCircle, placeMask, boxBlur) so far

collVars == <<coll, line, pt, stamps>>

(***************************************************************************)
(*                     Landscape and LandscapeRaw                          *)
(***************************************************************************)
VARIABLES
  minX, maxX, minY, maxY, minZ, maxZ,  \* Landscape: world bounds
  map_height,       \* Landscape: the heightmap (row-major, from 0), or Null
  map_boden,        \* Landscape: the soil map, or Null
  map_height_w, map_height_h,
  scape,            \* Landscape: Array<LandscapeElement>
  randState,        \* the C library's rand() state (process global)
  out,              \* a caller's Array<LandscapeElement*> handed to collectLandscape
  elements,         \* LandscapeRaw: collected LandscapeElement*, as indices into scape
  points, types, vertices, parameters, triangles,   \* LandscapeRaw: view arrays
  eSortCX, eSortCY, eSortCZ,   \* T_DLNAY.CPP: static camera position of the sort
  last              \* the last Landscape/LandscapeRaw call: name, arguments, result

landVars == <<minX, maxX, minY, maxY, minZ, maxZ, map_height, map_boden,
              map_height_w, map_height_h, scape, randState>>
rawVars == <<out, elements, points, types, vertices, parameters, triangles,
             eSortCX, eSortCY, eSortCZ>>

(***************************************************************************)
(*                            LandscapeEdit                                *)
(***************************************************************************)
VARIABLES
  o,        \* t_edit.cpp: the static RGBAImage of setObjectsFile: width, height, data
  objects,  \* LandscapeEdit: the pointer objects: Null, or "o" for &o
  file,     \* the raster in the file objects_fileName, or Null when there is none
  edited,   \* the last call on a LandscapeEdit: name, arguments, what it did
  other     \* the pointer objects of a second LandscapeEdit: Null, or "o" for &o

editVars == <<o, objects, file, edited, other>>

(***************************************************************************)
(*                              WAVOBJ_Mesh                                *)
(***************************************************************************)
VARIABLE
  mesh      \* o_wavobj.hpp: positions, parts (the faces of each part, a face is
            \* its p[0..numVerts-1]), the boundings of the mesh and of its parts

vars == <<coll, line, pt, stamps, landVars, rawVars, last, editVars, mesh>>

\* Bounds of the collision model.
FieldW == 4      \* cells per side of the generic field
MaxStamps == 2   \* mutating calls per behaviour

\* Lattice points per cell: 0.1 world units, the cell of the spec's scenarios.
CellUnits == Milli \div 10

\* LandscapeCollision(x0,z0,x1,z1,w,h): zeroed field.
NewCollision(x0, z0, x1, z1, w, h) ==
  [width |-> w, height |-> h, minX |-> x0, maxX |-> x1, minZ |-> z0, maxZ |-> z1,
   data |-> [i \in 0..(w * h - 1) |-> 0]]

\* stepX, stepZ of collideLine: the cell size (exact on the lattice).
CellX == (coll.maxX - coll.minX) \div coll.width
CellZ == (coll.maxZ - coll.minZ) \div coll.height

xCoord(x) == ((x - coll.minX) * coll.width) \div (coll.maxX - coll.minX)
zCoord(z) == ((z - coll.minZ) * coll.height) \div (coll.maxZ - coll.minZ)
xPos(xp) == (xp * (coll.maxX - coll.minX)) \div coll.width + coll.minX
zPos(zp) == (zp * (coll.maxZ - coll.minZ)) \div coll.height + coll.minZ

\* point() returns a double; the model returns its numerator over PointDen.
PointDen == CellX * CellZ

\* Mutant of point: the sentinel test compares with width/height instead of
\* width-1/height-1.
pointOffByOne(x, z) ==
  LET xp == xCoord(x)
      zp == zCoord(z)
      fx == (x - coll.minX) - xp * CellX
      fz == (z - coll.minZ) - zp * CellZ
      w  == coll.width
  IN IF UnsignedGE(xp, coll.width) THEN 255 * PointDen
     ELSE IF UnsignedGE(zp, coll.height - 1) THEN 255 * PointDen
     ELSE LET v__ == coll.data[xp + zp * w]
              vp_ == coll.data[(xp + 1) + zp * w]
              vpp == coll.data[(xp + 1) + (zp + 1) * w]
              v_p == coll.data[xp + (zp + 1) * w]
              up  == (vp_ - v__) * fx + v__ * CellX
              dn  == (vpp - v_p) * fx + v_p * CellX
          IN (dn - up) * fz + up * CellZ

\* Mutant of point: outside the grid it returns 0 instead of 255.
pointSentinelZero(x, z) ==
  LET xp == xCoord(x)
      zp == zCoord(z)
      fx == (x - coll.minX) - xp * CellX
      fz == (z - coll.minZ) - zp * CellZ
      w  == coll.width
  IN IF UnsignedGE(xp, coll.width - 1) THEN 0
     ELSE IF UnsignedGE(zp, coll.height - 1) THEN 0
     ELSE LET v__ == coll.data[xp + zp * w]
              vp_ == coll.data[(xp + 1) + zp * w]
              vpp == coll.data[(xp + 1) + (zp + 1) * w]
              v_p == coll.data[xp + (zp + 1) * w]
              up  == (vp_ - v__) * fx + v__ * CellX
              dn  == (vpp - v_p) * fx + v_p * CellX
          IN (dn - up) * fz + up * CellZ

\* double LandscapeCollision::point(double x, double z), times PointDen.
\* x2 = (x-minX)*width/(maxX-minX) = (x-minX)/CellX, so fx = fxN/CellX with
\* fxN = (x-minX) - xp*CellX; up and dn carry the denominator CellX.
point(x, z) ==
  LET xp == xCoord(x)
      zp == zCoord(z)
      fx == (x - coll.minX) - xp * CellX
      fz == (z - coll.minZ) - zp * CellZ
      w  == coll.width
  IN IF UnsignedGE(xp, coll.width - 1) THEN 255 * PointDen
     ELSE IF UnsignedGE(zp, coll.height - 1) THEN 255 * PointDen
     ELSE LET v__ == coll.data[xp + zp * w]
              vp_ == coll.data[(xp + 1) + zp * w]
              vpp == coll.data[(xp + 1) + (zp + 1) * w]
              v_p == coll.data[xp + (zp + 1) * w]
              up  == (vp_ - v__) * fx + v__ * CellX
              dn  == (vpp - v_p) * fx + v_p * CellX
          IN (dn - up) * fz + up * CellZ

\* bool LandscapeCollision::isPoint(double x, double z)
isPoint(x, z) == point(x, z) >= 128 * PointDen

\* void LandscapeCollision::normal(x, z, nx, nz).  The code returns
\* (-ax*d, -az*d) with d = 1/sqrt(ax*ax+az*az) (d = 0 when the gradient is
\* zero); the model returns <<-ax, -az>> times PointDen, the same direction
\* without the positive factor d, and <<0, 0>> exactly when the code does.
normal(x, z) ==
  LET dx == CellX \div 2
      dz == CellZ \div 2
      ax == point(x + dx, z) - point(x - dx, z)
      az == point(x, z + dz) - point(x, z - dz)
  IN <<-ax, -az>>

RECURSIVE GCDNat(_, _)
GCDNat(a, b) == IF b = 0 THEN a ELSE GCDNat(b, a % b)
GCD(a, b) == GCDNat(Abs(a), Abs(b))

\* (int)(d*256.0) of placeCircle for d = 1 - sqrt(dx*dx+dz*dz) > 0, where
\* dx = ux/rad2 and dz = uz/rad2: 256 - ceil(256*sqrt(ux^2+uz^2)/rad2), the
\* ceiling taken exactly on integers (ux, uz, rad2 reduced by their gcd).
CircleK(ux, uz, rad2) ==
  LET g == GCD(GCD(ux, uz), rad2)
      a == ux \div g
      b == uz \div g
      r == rad2 \div g
      m == CHOOSE c \in 0..256 :
             /\ c * c * r * r >= 65536 * (a * a + b * b)
             /\ (c = 0 \/ (c - 1) * (c - 1) * r * r < 65536 * (a * a + b * b))
  IN 256 - m

\* Mutant of placeCircleOn: the disc is added to the cell, saturating.
placeCircleOnAdding(data, x, z, rad) ==
  LET rad2 == rad * 2
      xp0 == xCoord(x - rad2)
      zp0 == zCoord(z - rad2)
      xp1 == xCoord(x + rad2)
      zp1 == zCoord(z + rad2)
      w == coll.width
  IN [i \in DOMAIN data |->
       LET xp == i % w
           zp == i \div w
           ux == xPos(xp) - x
           uz == zPos(zp) - z
       IN IF zp0 <= zp /\ zp <= zp1 /\ xp0 <= xp /\ xp <= xp1
             /\ ux * ux + uz * uz < rad2 * rad2
          THEN LET k0 == CircleK(ux, uz, rad2)
                   k1 == IF k0 > 255 THEN 255 ELSE k0
                   k  == IF k1 < 0 THEN 0 ELSE k1
               IN IF data[i] + k > 255 THEN 255 ELSE data[i] + k
          ELSE data[i]]

\* The array data after placeCircle(x, z, rad).  The loops visit the cells
\* zp0..zp1 x xp0..xp1 that lie inside the array (the unsigned tests skip the
\* others); d > 0 is ux^2+uz^2 < rad2^2.
placeCircleOn(data, x, z, rad) ==
  LET rad2 == rad * 2
      xp0 == xCoord(x - rad2)
      zp0 == zCoord(z - rad2)
      xp1 == xCoord(x + rad2)
      zp1 == zCoord(z + rad2)
      w == coll.width
  IN [i \in DOMAIN data |->
       LET xp == i % w
           zp == i \div w
           ux == xPos(xp) - x
           uz == zPos(zp) - z
       IN IF zp0 <= zp /\ zp <= zp1 /\ xp0 <= xp /\ xp <= xp1
             /\ ux * ux + uz * uz < rad2 * rad2
          THEN LET k0 == CircleK(ux, uz, rad2)
                   k1 == IF k0 > 255 THEN 255 ELSE k0
                   k  == IF k1 < 0 THEN 0 ELSE k1
               IN IF k > data[i] THEN k ELSE data[i]
          ELSE data[i]]

\* The data array of the field after placeCircle(x, z, rad).
placeCircleData(x, z, rad) == placeCircleOn(coll.data, x, z, rad)

\* C's conversion of a quotient to int truncates toward zero.
TruncDiv(n, d) ==
  IF (n >= 0) = (d > 0) THEN Abs(n) \div Abs(d) ELSE -(Abs(n) \div Abs(d))

\* The data array after placeMask(map, w, h, scale, add); scale and add are
\* given in Milli-ths.  x3 = x*w/width has the fraction x4 = x4N/width, so
\* top and bottom carry the denominator width and t carries width*height.
placeMaskData(map, w, h, scale, add) ==
  LET W == coll.width
      H == coll.height
  IN [i \in DOMAIN coll.data |->
       LET x == i % W
           z == i \div W
           x2 == (x * w) \div W
           z2 == (z * h) \div H
           x4 == x * w - x2 * W
           z4 == z * h - z2 * H
           xq == IF (x2 + 1) >= w THEN w - 1 ELSE x2 + 1
           zq == IF (z2 + 1) >= h THEN h - 1 ELSE z2 + 1
           v__ == map[x2 + z2 * w]
           vp_ == map[xq + z2 * w]
           vpp == map[xq + zq * w]
           v_p == map[x2 + zq * w]
           top == (vp_ - v__) * x4 + v__ * W
           bottom == (vpp - v_p) * x4 + v_p * W
           t == (bottom - top) * z4 + top * H
           k0 == TruncDiv(t * scale + add * 256 * W * H, W * H * Milli)
           k1 == IF k0 > 255 THEN 255 ELSE k0
           k  == IF k1 < 0 THEN 0 ELSE k1
       IN IF k > coll.data[i] THEN k ELSE coll.data[i]]

\* The data array after boxBlur(boxSize): the mean of the taps inside the
\* array, converted to unsigned char (truncated).
boxBlurData(boxSize) ==
  LET W == coll.width
      H == coll.height
      old == coll.data
  IN [i \in DOMAIN coll.data |->
       LET x == i % W
           y == i \div W
           taps == {j \in DOMAIN old :
                     /\ Abs((j % W) - x) <= boxSize
                     /\ Abs((j \div W) - y) <= boxSize}
           RECURSIVE Sum(_)
           Sum(S) == IF S = {} THEN 0
                     ELSE LET j == CHOOSE j \in S : TRUE
                          IN old[j] + Sum(S \ {j})
       IN Sum(taps) \div Cardinality(taps)]

(***************************************************************************)
(* collideLine.  A line record holds the arguments (x0,z0,x1,z1), the      *)
(* locals (d, xp, zp), the outputs (xh, zh, xn, zn), the return value ret  *)
(* and the number n of iterations of while(1) that were begun; pc is       *)
(* "loop" while the call is inside the loop and "done" once it returned.   *)
(***************************************************************************)
LineIdle ==
  [pc |-> "idle", x0 |-> 0, z0 |-> 0, x1 |-> 0, z1 |-> 0, d |-> 0,
   xp |-> 0, zp |-> 0, xh |-> 0, zh |-> 0, xn |-> 0, zn |-> 0,
   ret |-> FALSE, n |-> 0]

PtIdle == [pc |-> "idle", x |-> 0, z |-> 0, v |-> 0, solid |-> FALSE]

\* step of collideLine: half the smaller cell side, times stepSpeed = 0.1.
StepLen == (IF CellZ < CellX THEN CellZ ELSE CellX) \div 20

\* Doubles beyond the range of the model.  Huge stands for a finite double
\* whose square is above DBL_MAX (1e200, say): a difference of that size
\* squares to +infinity, for which the value Inf of d stands; a finite
\* value divided by Inf is 0, and no finite value is greater than Inf.
Huge == 1073741824
Inf == -1
SquaresToInf(a) == a >= Huge \/ -a >= Huge

\* sqrt(xd*xd + zd*zd).
LengthOf(xd, zd) ==
  IF SquaresToInf(xd) \/ SquaresToInf(zd) THEN Inf ELSE Sqrt(xd * xd + zd * zd)

\* fabs(d) < 0.00001.
Negligible(d) == d # Inf /\ d * 100000 < Milli

\* sqrt(dx*dx + dz*dz) > d.
Exceeds(dx, dz, d) == d # Inf /\ dx * dx + dz * dz > d * d

\* Mutant of collideLineEnter: the early return for a solid start is missing.
collideLineEnterNoEarlyReturn(x0, z0, x1, z1) ==
  LET xd == x1 - x0
      zd == z1 - z0
      d  == LengthOf(xd, zd)
      in == [LineIdle EXCEPT !.x0 = x0, !.z0 = z0, !.x1 = x1, !.z1 = z1, !.d = d]
  IN IF Negligible(d)
     THEN [in EXCEPT !.pc = "done", !.ret = isPoint(x0, z0)]
     ELSE [in EXCEPT !.pc = "loop", !.xp = x0, !.zp = z0]

\* collideLine, lines 275-291: the outputs are zeroed, a solid start returns
\* false, a segment shorter than 0.00001 returns hit (false here), otherwise
\* the loop is entered at (x0,z0).
collideLineEnter(x0, z0, x1, z1) ==
  LET hit == isPoint(x0, z0)
      xd == x1 - x0
      zd == z1 - z0
      d  == LengthOf(xd, zd)
      in == [LineIdle EXCEPT !.x0 = x0, !.z0 = z0, !.x1 = x1, !.z1 = z1, !.d = d]
  IN IF hit
     THEN [in EXCEPT !.pc = "done", !.ret = FALSE]
     ELSE IF Negligible(d)
     THEN [in EXCEPT !.pc = "done", !.ret = hit]
     ELSE [in EXCEPT !.pc = "loop", !.xp = x0, !.zp = z0]

\* xd*step and zd*step with xd = (x1-x0)/d, zd = (z1-z0)/d.
StepXOf(L) == IF L.d = Inf THEN 0 ELSE ((L.x1 - L.x0) * StepLen) \div L.d
StepZOf(L) == IF L.d = Inf THEN 0 ELSE ((L.z1 - L.z0) * StepLen) \div L.d

\* Mutant of collideLineIter: the hit position is the solid position (xp,zp)
\* instead of the previous one (lx,lz).
collideLineIterHitAtSolid(L) ==
  LET xp == L.xp + StepXOf(L)
      zp == L.zp + StepZOf(L)
      dx == xp - L.x0
      dz == zp - L.z0
      nrm == normal(xp, zp)
      hitRet == [L EXCEPT !.pc = "done", !.ret = TRUE, !.xp = xp, !.zp = zp,
                    !.xh = xp, !.zh = zp, !.xn = nrm[1], !.zn = nrm[2],
                    !.n = L.n + 1]
  IN IF Exceeds(dx, dz, L.d)
     THEN IF isPoint(xp, zp) THEN hitRet
          ELSE [L EXCEPT !.pc = "done", !.ret = FALSE, !.xp = xp, !.zp = zp,
                   !.n = L.n + 1]
     ELSE IF isPoint(xp, zp) THEN hitRet
          ELSE [L EXCEPT !.xp = xp, !.zp = zp, !.n = L.n + 1]

\* Mutant of collideLineIter: past the end point the position is not sampled.
collideLineIterStopAtEnd(L) ==
  LET lx == L.xp
      lz == L.zp
      xp == lx + StepXOf(L)
      zp == lz + StepZOf(L)
      dx == xp - L.x0
      dz == zp - L.z0
      nrm == normal(lx, lz)
      hitRet == [L EXCEPT !.pc = "done", !.ret = TRUE, !.xp = xp, !.zp = zp,
                    !.xh = lx, !.zh = lz, !.xn = nrm[1], !.zn = nrm[2],
                    !.n = L.n + 1]
  IN IF Exceeds(dx, dz, L.d)
     THEN [L EXCEPT !.pc = "done", !.ret = FALSE, !.xp = xp, !.zp = zp,
              !.n = L.n + 1]
     ELSE IF isPoint(xp, zp) THEN hitRet
          ELSE [L EXCEPT !.xp = xp, !.zp = zp, !.n = L.n + 1]

\* collideLine, lines 292-314: one iteration of while(1).
collideLineIter(L) ==
  LET lx == L.xp
      lz == L.zp
      xp == lx + StepXOf(L)
      zp == lz + StepZOf(L)
      dx == xp - L.x0
      dz == zp - L.z0
      nrm == normal(lx, lz)
      hitRet == [L EXCEPT !.pc = "done", !.ret = TRUE, !.xp = xp, !.zp = zp,
                    !.xh = lx, !.zh = lz, !.xn = nrm[1], !.zn = nrm[2],
                    !.n = L.n + 1]
  IN IF Exceeds(dx, dz, L.d)
     THEN IF isPoint(xp, zp) THEN hitRet
          ELSE [L EXCEPT !.pc = "done", !.ret = FALSE, !.xp = xp, !.zp = zp,
                   !.n = L.n + 1]
     ELSE IF isPoint(xp, zp) THEN hitRet
          ELSE [L EXCEPT !.xp = xp, !.zp = zp, !.n = L.n + 1]

\* 2^k iterations of while(1), or fewer when the call returns before.
RECURSIVE collideLineIterate(_, _)
collideLineIterate(L, k) ==
  IF L.pc # "loop" THEN L
  ELSE IF k = 0 THEN collideLineIter(L)
  ELSE collideLineIterate(collideLineIterate(L, k - 1), k - 1)

\* An iteration of while(1) that does not return and leaves (xp,zp) where it
\* is: every later iteration does the same, the call never returns.
Spinning(L) ==
  /\ L.pc = "loop"
  /\ collideLineIter(L).pc = "loop"
  /\ collideLineIter(L).xp = L.xp /\ collideLineIter(L).zp = L.zp

\* while(1): iterate until a return (in blocks of 64 iterations, which keeps
\* the evaluation shallow); a call that never returns stays at pc = "loop".
RECURSIVE collideLineLoop(_)
collideLineLoop(L) ==
  IF L.pc = "loop" /\ ~Spinning(L) THEN collideLineLoop(collideLineIterate(L, 6)) ELSE L

\* bool collideLine(x0,z0,x1,z1,&xh,&zh,&xn,&zn): the whole call.  line is
\* the activation of the one call made on the field as it is now; a change of
\* the field drops it.  While a call has not returned (pc = "loop") the
\* caller makes no other call.
CollideLine(x0, z0, x1, z1) ==
  /\ line.pc = "idle" /\ pt.pc = "idle"
  /\ line' = collideLineLoop(collideLineEnter(x0, z0, x1, z1))
  /\ pt' = PtIdle
  /\ UNCHANGED <<mesh, editVars, coll, stamps, landVars, rawVars, last>>

StepX == StepXOf(line)
StepZ == StepZOf(line)

\* A caller samples the field: point(x,z) and isPoint(x,z).
PointQuery(x, z) ==
  /\ line.pc = "idle" /\ pt.pc = "idle"
  /\ pt' = [pc |-> "done", x |-> x, z |-> z, v |-> point(x, z), solid |-> isPoint(x, z)]
  /\ line' = LineIdle
  /\ UNCHANGED <<mesh, editVars, coll, stamps, landVars, rawVars, last>>

PlaceCircle(x, z, rad) ==
  /\ stamps < MaxStamps /\ line.pc # "loop"
  /\ coll' = [coll EXCEPT !.data = placeCircleData(x, z, rad)]
  /\ stamps' = stamps + 1
  /\ line' = LineIdle /\ pt' = PtIdle
  /\ UNCHANGED <<mesh, editVars, landVars, rawVars, last>>

PlaceMask(map, w, h, scale, add) ==
  /\ stamps < MaxStamps /\ line.pc # "loop"
  /\ coll' = [coll EXCEPT !.data = placeMaskData(map, w, h, scale, add)]
  /\ stamps' = stamps + 1
  /\ line' = LineIdle /\ pt' = PtIdle
  /\ UNCHANGED <<mesh, editVars, landVars, rawVars, last>>

BoxBlur(boxSize) ==
  /\ stamps < MaxStamps /\ line.pc # "loop"
  /\ coll' = [coll EXCEPT !.data = boxBlurData(boxSize)]
  /\ stamps' = stamps + 1
  /\ line' = LineIdle /\ pt' = PtIdle
  /\ UNCHANGED <<mesh, editVars, landVars, rawVars, last>>

(***************************************************************************)
(* Landscape.  Positions and heights are counted in Milli-ths of a world   *)
(* unit, heightmap cells in whole steps of the 16 bit range; a quotient is *)
(* rounded down to the lattice where the code keeps a float.               *)
(***************************************************************************)
\* The NULL pointer of map_height and map_boden: an array without cells.
Null == <<>>

\* <<q, r>> with a*b = q*c + r and 0 <= r < c, for a, b >= 0 and c > 0,
\* computed without a product beyond 32 bits.
RECURSIVE MulDivQR(_, _, _)
MulDivQR(a, b, c) ==
  IF b = 0 THEN <<0, 0>>
  ELSE LET hf == MulDivQR(a, b \div 2, c)
           t  == 2 * hf[2] + (b % 2) * (a % c)
       IN <<2 * hf[1] + (b % 2) * (a \div c) + t \div c, t % c>>

\* floor(a*b/c) for b >= 0, c > 0 and any a.
MulDiv(a, b, c) ==
  IF a >= 0 THEN MulDivQR(a, b, c)[1]
  ELSE LET qr == MulDivQR(-a, b, c)
       IN IF qr[2] = 0 THEN -qr[1] ELSE -qr[1] - 1

\* map[((i-1)<0?0:(i-1))] and map[((i+1)>=n?n-1:(i+1))]: neighbour indices.
Prev(i) == IF i - 1 < 0 THEN 0 ELSE i - 1
Succ(i, n) == IF i + 1 >= n THEN n - 1 ELSE i + 1

\* Mutant of ClampTo: only the upper bound clamps.
ClampToUpper(x, lo, hi) == IF x > hi THEN hi ELSE x

\* if (x < lo) x = lo; if (x > hi) x = hi;
ClampTo(x, lo, hi) == IF x < lo THEN IF lo > hi THEN hi ELSE lo
                      ELSE IF x > hi THEN hi ELSE x

\* xi_ < 0 ? 0 : (xi_ >= n ? (n-1) : xi_) and (xi0 + 1) >= n ? xi0 : (xi0 + 1).
CellIndex0(xi_, n) == IF xi_ < 0 THEN 0 ELSE IF xi_ >= n THEN n - 1 ELSE xi_
CellIndex1(xi0, n) == IF xi0 + 1 >= n THEN xi0 ELSE xi0 + 1

\* (p1 - p0) * f + p0 for the fraction f = fn/fd.
Lerp(p0, p1, fn, fd) == ((p1 - p0) * fn) \div fd + p0

\* The return of getHeight from the four cells and the fractions fx, fy
\* (numerators over maxX-minX and maxZ-minZ).
getHeightCells(map, xi0, zi0, xi1, zi1, fx, fy) ==
  MulDiv(Lerp(Lerp(map[xi0 + zi0 * map_height_w], map[xi1 + zi0 * map_height_w],
                   fx, maxX - minX),
              Lerp(map[xi0 + zi1 * map_height_w], map[xi1 + zi1 * map_height_w],
                   fx, maxX - minX),
              fy, maxZ - minZ),
         maxY - minY, 65535) + minY

\* getHeight from xf and zf, given as numerators xfn over maxX-minX and zfn
\* over maxZ-minZ, and the cells (xi0, zi0) their floors lead to.
getHeightAt(map, xfn, zfn, xi0, zi0) ==
  getHeightCells(map, xi0, zi0, CellIndex1(xi0, map_height_w),
                 CellIndex1(zi0, map_height_h),
                 xfn % (maxX - minX), zfn % (maxZ - minZ))

getHeightFrom(map, xfn, zfn, xa, za) ==
  getHeightAt(map, xfn, zfn,
              CellIndex0(xfn \div (maxX - minX) + xa, map_height_w),
              CellIndex0(zfn \div (maxZ - minZ) + za, map_height_h))

\* Mutant of getHeight: the cells sit on the corners of the world rectangle,
\* so that the world spans map_height_w - 1 cells.
getHeightCorners(map, x, z, xa, za) ==
  getHeightFrom(map, (ClampTo(x, minX, maxX - 1) - minX) * (map_height_w - 1),
                (ClampTo(z, minZ, maxZ - 1) - minZ) * (map_height_h - 1), xa, za)

\* float Landscape::getHeight(x, z, xa, za), in Milli-ths, on the heightmap
\* map (map_height as it is at the time of the call); maxX-0.001f is maxX - 1.
getHeight(map, x, z, xa, za) ==
  getHeightFrom(map, (ClampTo(x, minX, maxX - 1) - minX) * map_height_w,
                (ClampTo(z, minZ, maxZ - 1) - minZ) * map_height_h, xa, za)

\* float Landscape::getHeightBox(x, z, rad): the mean over the box.
getHeightBox(map, x, z, rad) ==
  LET RECURSIVE SumZ(_)
      RECURSIVE SumX(_, _)
      SumX(zi, xi) == IF xi > rad THEN 0
                      ELSE getHeight(map, x, z, xi, zi) + SumX(zi, xi + 1)
      SumZ(zi) == IF zi > rad THEN 0 ELSE SumX(zi, -rad) + SumZ(zi + 1)
      n == (2 * rad + 1) * (2 * rad + 1)
  IN IF rad >= 0 THEN SumZ(-rad) \div n ELSE 0

\* void Landscape::putHeight(x, z, height): the heightmap afterwards.
putHeightData(map, x, z, height) ==
  LET w  == map_height_w
      h  == map_height_h
      xi == ((x - minX) * w) \div (maxX - minX)
      zi == ((z - minZ) * h) \div (maxZ - minZ)
      kf == MulDiv(height - minY, 65535, maxY - minY)
      k  == IF kf < 0 THEN 0 ELSE IF kf > 65535 THEN 65535 ELSE kf
  IN IF x < minX \/ x >= maxX THEN map
     ELSE IF z < minZ \/ z >= maxZ THEN map
     ELSE IF UnsignedGE(xi, w - 1) THEN map
     ELSE IF UnsignedGE(zi, h - 1) THEN map
     ELSE [map EXCEPT ![xi + zi * w] = k]

\* LandscapeType.
LANDSCAPE_TYPE_HEIGHT == 0
LANDSCAPE_TYPE_ROAD == 1
LANDSCAPE_TYPE_TREE == 2
LANDSCAPE_TYPE_GRASS == 3
LANDSCAPE_TYPE_FLOWER == 4
LANDSCAPE_TYPE_STONE == 5
LANDSCAPE_TYPE_WATER == 6
LANDSCAPE_TYPE_OBJECT == 7

\* distanceThresholdSquared is kept in Milli-ths squared and saturates at
\* D2Max = SqrtD2Max^2 (20 world units squared), which is beyond every squared
\* distance between an element and a camera of the model.
SqrtD2Max == 20 * Milli
D2Max == SqrtD2Max * SqrtD2Max
SatSq(siz) == IF Abs(siz) >= SqrtD2Max THEN D2Max ELSE siz * siz

\* class LandscapeElement.
LandscapeElement(type, v0, v1, v2, d2, x, y, z) ==
  [type |-> type, v0 |-> v0, v1 |-> v1, v2 |-> v2,
   distanceThresholdSquared |-> d2, x |-> x, y |-> y, z |-> z]

\* LandscapeElement(): the value-initialised element that push_back copies.
LandscapeElementZero == LandscapeElement(0, 0, 0, 0, 0, 0, 0, 0)

\* The C library's rand(): a linear congruential generator; srand(s) sets the
\* state to s.  RandNext is the state after a draw, RandValue what it returned.
RandNext(rs) == (rs * 75 + 74) % 65537
RandValue(rs) == RandNext(rs) % 32768
\* The state after n draws.
RECURSIVE RandSkip(_, _)
RandSkip(rs, n) == IF n = 0 THEN rs ELSE RandSkip(RandNext(rs), n - 1)
\* The n-th draw (n >= 1) from state rs.
Rand(rs, n) == RandValue(RandSkip(rs, n - 1))

\* sin and cos of the C library on Milli-radians, in Milli-ths (Bhaskara's
\* rational approximation, within 2 Milli-ths).
PiMilli == 3142
SinHalf(x) == MulDiv(16 * x * (PiMilli - x), Milli,
                     5 * PiMilli * PiMilli - 4 * x * (PiMilli - x))
Sin(x) ==
  LET r == x % (2 * PiMilli)
  IN IF r <= PiMilli THEN SinHalf(r) ELSE -SinHalf(r - PiMilli)
Cos(x) == Sin(x + PiMilli \div 2)

\* <<a, b>> scaled down to magnitudes a product of which fits 32 bits; the
\* direction is kept (exactly when the gcd suffices).
ShrinkBy(a, f) == IF a < 0 THEN -((-a) \div f) ELSE a \div f
ShrinkPair(ab, m) ==
  IF m <= 200 THEN ab
  ELSE <<ShrinkBy(ab[1], m \div 200 + 1), ShrinkBy(ab[2], m \div 200 + 1)>>
Reduced(a, b, g) == IF g = 0 THEN <<0, 0>> ELSE <<a \div g, b \div g>>
ShrinkReduced(ab) == ShrinkPair(ab, Max(Abs(ab[1]), Abs(ab[2])))
Shrink(a, b) == ShrinkReduced(Reduced(a, b, GCD(a, b)))

\* p * sqrt(n) <= q, on integers.
BelowGradient(p, q, n) ==
  IF p <= 0 /\ q >= 0 THEN TRUE
  ELSE IF p >= 0 /\ q < 0 THEN FALSE
  ELSE IF p >= 0 THEN p * p * n <= q * q
  ELSE p * p * n >= q * q

\* (unsigned char)(128 + dx*127) for dx = a/sqrt(n): the largest byte m with
\* (m - 128) * sqrt(n) <= 127 * a.
GradientByte(a, n) ==
  CHOOSE m \in 1..255 : /\ BelowGradient(m - 128, 127 * a, n)
                        /\ m = 255 \/ ~BelowGradient(m - 127, 127 * a, n)

\* float d = sqrt(dx*dx + dy*dy); if (d!=0) {dx /=d; dy /= d;}
\* e->v0 = 128+dx * 127;
GradientOf(ab, dxv) ==
  IF ab = <<0, 0>> THEN 128 + 127 * dxv
  ELSE GradientByte(ab[1], ab[1] * ab[1] + ab[2] * ab[2])
GradientV0(dxv, dyv) == GradientOf(Shrink(dxv, dyv), dxv)

\* v0 of a height element in cell (x, z) of the w x h heightmap map: the
\* gradient over the neighbours vn_, vp_ (in X) and v_n, v_p (in Z).
GradientAt(map, x, z, w, h) ==
  GradientV0(map[Succ(x, w) + z * w] - map[Prev(x) + z * w],
             map[x + Succ(z, h) * w] - map[x + Prev(z) * w])

\* Mutant of hitThresh: the crossing on the left is not shifted by -1.
hitThreshUnshifted(center, left, right, thresh) ==
  IF left < thresh
  THEN IF center = left THEN 0
       ELSE TruncDiv((thresh - left) * Milli, center - left)
  ELSE IF right < thresh
  THEN IF right = center THEN 0
       ELSE TruncDiv((thresh - center) * Milli, right - center)
  ELSE 0

\* float Landscape::hitThresh(center, left, right, thresh), in Milli-ths of a
\* cell (rounded towards zero as the division of two ints would be).
hitThresh(center, left, right, thresh) ==
  IF left < thresh
  THEN LET dist0 == left - thresh
           dist1 == center - thresh
           k == -dist0 + dist1
       IN IF k = 0 THEN 0 ELSE TruncDiv(-dist0 * Milli, k) - Milli
  ELSE IF right < thresh
  THEN LET dist0 == center - thresh
           dist1 == right - thresh
           k == -dist0 + dist1
       IN IF k = 0 THEN 0 ELSE TruncDiv(-dist0 * Milli, k)
  ELSE 0

\* sqrt(vx*vx+vy*vy) < steepThresh, on the doubled values X = 2*vx, Y = 2*vy
\* and T2 = 2*steepThresh; beyond 15 bits the three are scaled down together.
LessSteep(X, Y, T2) ==
  IF T2 <= 0 THEN FALSE
  ELSE IF Abs(X) >= T2 \/ Abs(Y) >= T2 THEN FALSE
  ELSE IF T2 <= 32767 THEN X * X + Y * Y < T2 * T2
  ELSE LET sc == T2 \div 16384 + 1
           xs == Abs(X) \div sc
           ys == Abs(Y) \div sc
           ts == T2 \div sc
       IN xs * xs + ys * ys < ts * ts

\* int t = n; while ((i % t) != 0) t >>= 1;
RECURSIVE Halve(_, _)
Halve(i, t) == IF i % t = 0 THEN t ELSE Halve(i, t \div 2)

\* x == 0 || x >= w-stepX || z == 0 || z >= h-stepZ
HeightBorder(x, z, w, h, stepX, stepZ) ==
  x = 0 \/ UnsignedGE(x, w - stepX) \/ z = 0 \/ UnsignedGE(z, h - stepZ)

\* siz of setHeightMap for the halved sizes tx and tz of the cell (x, z).
HeightSiz(x, z, w, h, tx, tz, distFact, border) ==
  IF border /\ (x + z) % 8 = 0 THEN (maxX - minX) + (maxZ - minZ)
  ELSE MulDiv((IF tz < tx THEN (tz * Milli) \div h ELSE (tx * Milli) \div w) * 750,
              distFact, Milli)

\* v < steepThresh for the cell (x, z): vx = (vn_+vp_)*0.5-v__ and vy alike.
HeightFlat(map, x, z, w, h, steepThresh) ==
  LessSteep(map[Prev(x) + z * w] + map[Succ(x, w) + z * w] - 2 * map[x + z * w],
            map[x + Prev(z) * w] + map[x + Succ(z, h) * w] - 2 * map[x + z * w],
            2 * steepThresh)

\* The element setHeightMap writes for the cell (x, z).
HeightElement(map, boden, w, h, x, z, siz, unset) ==
  LandscapeElement(LANDSCAPE_TYPE_HEIGHT, GradientAt(map, x, z, w, h),
                   boden[x + z * w], unset, SatSq(siz),
                   ((maxX - minX) * x) \div w + minX,
                   MulDiv(map[x + z * w], maxY - minY, 65535) + minY,
                   ((maxZ - minZ) * z) \div h + minZ)

\* What the loop body of setHeightMap writes for the cell (x, z): nothing
\* after a continue.
HeightCell(mask, map, w, h, x, z, distFact, steepThresh, boden, unset, border) ==
  IF mask[x + z * w] # 0 /\ ~border THEN <<>>
  ELSE IF HeightFlat(map, x, z, w, h, steepThresh) /\ ~border THEN <<>>
  ELSE << HeightElement(map, boden, w, h, x, z,
                        HeightSiz(x, z, w, h, Halve(x, w), Halve(z, h), distFact, border),
                        unset) >>

\* The elements setHeightMap writes to scape[k], scape[k+1], ..., in order.
\* distFact is given in Milli-ths, steepThresh in heightmap steps; unset is
\* the content of the fields the code does not assign (v2).
setHeightMapElements(mask, map, w, h, stepX, stepZ, distFact, steepThresh, boden, unset) ==
  LET RECURSIVE Loop(_, _)
      Loop(x, z) == IF z >= h THEN <<>>
                    ELSE IF x >= w THEN Loop(0, z + stepZ)
                    ELSE HeightCell(mask, map, w, h, x, z, distFact, steepThresh,
                                    boden, unset,
                                    HeightBorder(x, z, w, h, stepX, stepZ))
                         \o Loop(x + stepX, z)
  IN Loop(0, 0)

\* The number of slots scape.resize(k + (w/stepX)*(h/stepZ)) adds.
setHeightMapReserved(w, h, stepX, stepZ) == (w \div stepX) * (h \div stepZ)

\* (maxX-minX)*c/w+minX and (maxZ-minZ)*r/h+minZ for a column c and a row r
\* given in Milli-ths of a cell.
WorldX(c, w) == ((maxX - minX) * c) \div (w * Milli) + minX
WorldZ(r, h) == ((maxZ - minZ) * r) \div (h * Milli) + minZ

\* sin(px+pz+sin(px*0.4-pz*0.2)+cos(px*0.7)-sin(pz*0.9)), in Milli-ths.
Noise(px, pz) ==
  Sin(px + pz + Sin((px * 4 - pz * 2) \div 10) + Cos((px * 7) \div 10)
      - Sin((pz * 9) \div 10))

\* Mutant of Push: the new element takes the place of the last one.
PushOverLast(st, e) ==
  [st EXCEPT !.scape = IF st.scape = <<>> THEN <<e>>
                       ELSE [st.scape EXCEPT ![Len(st.scape)] = e]]

\* A generator works on st = [scape, map, rs]: the element list, the
\* heightmap and the rand() state as they are at that point of the call.
\* scape.push_back(e).
Push(st, e) == [st EXCEPT !.scape = Append(st.scape, e)]

\* A loop carries the state from one iteration into the next: Next(u) for the
\* state u that the iteration has left.
Then(st, Next(_)) == CHOOSE r \in {Next(u) : u \in {st}} : TRUE

\* Mutant of Drawn: one call of rand() more.
DrawnOneMore(st, n) == [st EXCEPT !.rs = RandSkip(st.rs, n + 1)]

\* The state after n more calls of rand().
Drawn(st, n) == [st EXCEPT !.rs = RandSkip(st.rs, n)]

\* Mutant of srand: the stream goes on where it is.
srandIgnored(st, seed) == st

\* srand(seed) within a generator.
srand(st, seed) == [st EXCEPT !.rs = seed]

\* scape.push_back(LandscapeElement()); e->x = ex; e->z = ez;
\* e->y = getHeight(e->x, e->z) + dy; and the other fields as given.
PushAt(st, type, v0, v1, v2, d2, ex, ez, dy) ==
  Push(st, LandscapeElement(type, v0, v1, v2, d2, ex,
                            getHeight(st.map, ex, ez, 0, 0) + dy, ez))

\* putHeight(ex, ez, getHeight(ex, ez) + f).
AddHeight(st, ex, ez, f) ==
  [st EXCEPT !.map = putHeightData(st.map, ex, ez, getHeight(st.map, ex, ez, 0, 0) + f)]

\* The element insertEmpty pushes: at (ex, ez), with the gradient and the
\* soil of the cell (x, z).
insertEmptyElement(map, x, z, w, h, distFact, ex, ez) ==
  LandscapeElement(LANDSCAPE_TYPE_HEIGHT, GradientAt(map, x, z, w, h),
                   map_boden[x + z * w], 0, distFact,
                   ex, getHeight(map, ex, ez, 0, 0), ez)

\* void Landscape::insertEmpty(x2, z2, w, h, distFact); x2 and z2 in Milli-ths
\* of a cell, distFact (stored as distanceThresholdSquared) in Milli-ths
\* squared.
insertEmpty(st, x2, z2, w, h, distFact) ==
  Push(st, insertEmptyElement(st.map, ClampTo(x2 \div Milli, 0, w - 1),
                              ClampTo(z2 \div Milli, 0, h - 1), w, h, distFact,
                              WorldX(x2, w), WorldZ(z2, h)))

\* <<v__, vn_, vp_, v_n, v_p>>: the cell (x, z) of the w x h layer map and
\* its neighbours.
Around(map, x, z, w, h) ==
  <<map[x + z * w], map[Prev(x) + z * w], map[Succ(x, w) + z * w],
    map[x + Prev(z) * w], map[x + Succ(z, h) * w]>>

\* grad = sqrt(gradX^2+gradZ^2); grad = grad*grad*9, in Milli-ths, from the
\* byte differences gx = vp_-vn_ and gz = v_p-v_n.
Grad9(gx, gz) == MulDiv(9 * Milli, gx * gx + gz * gz, 255 * 255)
Grad9Of(v) == Grad9(v[3] - v[2], v[5] - v[4])

\* some && someNotAround for a threshold.
OnContour(v, thresh) ==
  /\ v[1] >= thresh
  /\ v[2] < thresh \/ v[3] < thresh \/ v[4] < thresh \/ v[5] < thresh

\* x + xd and z + zd, in Milli-ths of a cell, and the world position there.
ContourX(v, x, thresh) == x * Milli + hitThresh(v[1], v[2], v[3], thresh)
ContourZ(v, z, thresh) == z * Milli + hitThresh(v[1], v[4], v[5], thresh)
ContourWorldX(v, x, w, thresh) == WorldX(ContourX(v, x, thresh), w)
ContourWorldZ(v, z, h, thresh) == WorldZ(ContourZ(v, z, thresh), h)

\* if (some3 && someNotAround3) insertEmpty(x+xd, z+zd, w, h, d).
Cleanup(st, v, x, z, w, h, thresh, d) ==
  IF OnContour(v, thresh)
  THEN insertEmpty(st, ContourX(v, x, thresh), ContourZ(v, z, thresh), w, h, d)
  ELSE st

\* The loop body of setStones and of setWater: an element of the type on the
\* contour of threshOuter, an empty one on the contour of threshCleanup.
ContourCell(st, v, x, z, w, h, type, v0, threshOuter, threshCleanup, d) ==
  Cleanup(IF OnContour(v, threshOuter)
          THEN PushAt(st, type, v0, 0, 0, d, ContourWorldX(v, x, w, threshOuter),
                      ContourWorldZ(v, z, h, threshOuter), 0)
          ELSE st,
          v, x, z, w, h, threshCleanup, d)

\* Mutant of setObjects: a pixel is an object when its R is not zero.
setObjectsRawR(st, rgba, w, h) ==
  LET Cell(t, x, z) ==
        LET p  == rgba[x + z * w]
            p0 == p[1] \div 4
            px == WorldX(x * Milli, w)
            pz == WorldZ(z * Milli, h)
            s0 == ((maxX - minX) + (maxZ - minZ)) \div 20
            siz == IF p0 - 1 = 3 \/ p0 - 1 = 4 THEN s0 * 3 ELSE s0
        IN IF p[1] # 0
           THEN Push(t, LandscapeElement(LANDSCAPE_TYPE_OBJECT, p0, p[2] \div 4,
                                         p[3] \div 4, SatSq(siz),
                                         px, getHeight(t.map, px, pz, 0, 0), pz))
           ELSE t
      RECURSIVE Loop(_, _)
      Loop(t, i) == IF i >= w * h THEN t
                    ELSE Then(Cell(t, i % w, i \div w), LAMBDA u : Loop(u, i + 1))
  IN Loop(st, 0)

\* void Landscape::setObjects(rgba, w, h); a pixel is <<p & 255, (p>>8) & 255,
\* (p>>16) & 255, (p>>24) & 255>>.
setObjects(st, rgba, w, h) ==
  LET Cell(t, x, z) ==
        LET p  == rgba[x + z * w]
            p0 == p[1] \div 4
            px == WorldX(x * Milli, w)
            pz == WorldZ(z * Milli, h)
            s0 == ((maxX - minX) + (maxZ - minZ)) \div 20
            siz == IF p0 - 1 = 3 \/ p0 - 1 = 4 THEN s0 * 3 ELSE s0
        IN IF p0 # 0
           THEN Push(t, LandscapeElement(LANDSCAPE_TYPE_OBJECT, p0, p[2] \div 4,
                                         p[3] \div 4, SatSq(siz),
                                         px, getHeight(t.map, px, pz, 0, 0), pz))
           ELSE t
      RECURSIVE Loop(_, _)
      Loop(t, i) == IF i >= w * h THEN t
                    ELSE Then(Cell(t, i % w, i \div w), LAMBDA u : Loop(u, i + 1))
  IN Loop(st, 0)

\* void Landscape::setTrees(mask, map, w, h, randomModulo).
setTrees(st, mask, map, w, h, randomModulo) ==
  LET Cell(t, x, z) ==
        LET r1 == Rand(t.rs, 1)
            r3 == Rand(t.rs, 3)
            r4 == Rand(t.rs, 4)
            r5 == Rand(t.rs, 5)
            r6 == Rand(t.rs, 6) % 256
            u  == Drawn(t, 6)
            ex == WorldX(x * Milli, w)
            ez == WorldZ(z * Milli, h)
            bigTree == IF r6 \div 220 > 0 THEN 1 ELSE 0
            siz == 200 * Milli + ((r5 % 256) * 200 * Milli) \div 255
        IN IF mask[x + z * w] # 0 THEN u
           ELSE IF map[x + z * w] # 0 /\ r1 % randomModulo = 0
           THEN Push(u, LandscapeElement(LANDSCAPE_TYPE_TREE, r3 % 256, r4 % 256,
                                         (r6 % 2) + bigTree * 128, SatSq(siz), ex,
                                         getHeight(t.map, ex, ez, 0, 0) - 250 - 750 * bigTree,
                                         ez))
           ELSE u
      RECURSIVE Loop(_, _)
      Loop(t, i) == IF i >= w * h THEN t
                    ELSE Then(Cell(t, i % w, i \div w), LAMBDA u : Loop(u, i + 1))
  IN Loop(srand(st, 0), 0)

\* d = sqrt(dx*dx+dy*dy); notSteep = d < 0.5.
GrassSlope(dx, dy) == Abs(dx) < 500 /\ Abs(dy) < 500 /\ dx * dx + dy * dy < 500 * 500
GrassNotSteep(map, px0, py0, k) ==
  GrassSlope(getHeight(map, px0 + k, py0, 0, 0) - getHeight(map, px0 - k, py0, 0, 0),
             getHeight(map, px0, py0 + k, 0, 0) - getHeight(map, px0, py0 - k, 0, 0))

\* The grass element of setGrass at (ex, ez) from the draws r3, r4 and r5.
GrassAt(st, r3, r4, r5, ex, ez) ==
  PushAt(st, LANDSCAPE_TYPE_GRASS,
         ((Noise(ex \div 4, ez \div 4) \div 2 + 500) * 8) \div Milli + 22,
         r3 % 256, r4 % 256,
         SatSq(((r5 % 256) * 150 * Milli) \div 255 + 50 * Milli), ex, ez, 0)

\* void Landscape::setGrass(mask, map, w, h, randomModulo).
setGrass(st, mask, map, w, h, randomModulo) ==
  LET Cell(t, x, z) ==
        IF mask[x + z * w] # 0 THEN Drawn(t, 7)
        ELSE IF /\ map[x + z * w] # 0
                /\ Rand(t.rs, 1) % randomModulo = 0
                /\ GrassNotSteep(t.map, WorldX(x * Milli, w), WorldZ(z * Milli, h),
                                 (3 * (maxX - minX)) \div w)
        THEN GrassAt(Drawn(t, 7), Rand(t.rs, 3), Rand(t.rs, 4), Rand(t.rs, 5),
                     WorldX(x * Milli + ((Rand(t.rs, 6) % 256) * Milli) \div 255, w),
                     WorldZ(z * Milli + ((Rand(t.rs, 7) % 256) * Milli) \div 255, h))
        ELSE Drawn(t, 7)
      RECURSIVE Loop(_, _)
      Loop(t, i) == IF i >= w * h THEN t
                    ELSE Then(Cell(t, i % w, i \div w), LAMBDA u : Loop(u, i + 1))
  IN Loop(srand(st, 0), 0)

\* void Landscape::setFlowers(mask, map, w, h, randomModulo).
setFlowers(st, mask, map, w, h, randomModulo) ==
  LET Cell(t, x, z) ==
        LET r1 == Rand(t.rs, 1)
            r3 == Rand(t.rs, 3)
            r4 == Rand(t.rs, 4)
            r5 == Rand(t.rs, 5)
            r7 == Rand(t.rs, 7)
            u  == Drawn(t, 7)
            ex == WorldX(x * Milli, w)
            ez == WorldZ(z * Milli, h)
            f0 == Noise(ex \div 2, ez \div 2) \div 2 + 500
            f  == IF r3 % 8 = 0 THEN ((r4 % 8) * Milli) \div 7 ELSE f0
            v2 == r7 % 256
            siz == (75 * (((r5 % 256) * 750) \div 255 + 250)
                       * ((v2 * 500) \div 255 + 500)) \div Milli
        IN IF mask[x + z * w] # 0 THEN u
           ELSE IF map[x + z * w] # 0 /\ r1 % randomModulo = 0
           THEN Push(u, LandscapeElement(LANDSCAPE_TYPE_FLOWER, ((f * 4) \div Milli) % 4,
                                         r5 % 256, v2, SatSq(siz), ex,
                                         getHeight(t.map, ex, ez, 0, 0) + 500, ez))
           ELSE u
      RECURSIVE Loop(_, _)
      Loop(t, i) == IF i >= w * h THEN t
                    ELSE Then(Cell(t, i % w, i \div w), LAMBDA u : Loop(u, i + 1))
  IN Loop(srand(st, 0), 0)

\* f of setStones at (ex, ez) for the draw r2:
\* (sin(px+pz+sin(px)+cos(pz))*0.5+0.5+0.2)*3*(1.0+r2/255.f*0.25).
StoneRise(px, pz, r2) ==
  (3 * (Sin(px + pz + Sin(px) + Cos(pz)) \div 2 + 700)
     * (Milli + (r2 * 250) \div 255)) \div Milli

\* void Landscape::setStones(map, w, h, threshOuter, threshCleanup).
setStones(st, map, w, h, threshOuter, threshCleanup) ==
  LET Raise(t, x, z) ==
        IF map[(x * w) \div map_height_w + ((z * h) \div map_height_h) * w] >= threshOuter
        THEN AddHeight(Drawn(t, 1), WorldX(x * Milli, w), WorldZ(z * Milli, h),
                       StoneRise(WorldX(x * Milli, w) \div 10, WorldZ(z * Milli, h) \div 10,
                                 Rand(t.rs, 1) % 256))
        ELSE Drawn(t, 1)
      RECURSIVE RaiseLoop(_, _)
      RaiseLoop(t, i) ==
        IF i >= map_height_w * map_height_h THEN t
        ELSE Then(Raise(t, i % map_height_w, i \div map_height_w),
                  LAMBDA u : RaiseLoop(u, i + 1))
      Stone(t, v, x, z, r1) ==
        ContourCell(t, v, x, z, w, h, LANDSCAPE_TYPE_STONE, r1, threshOuter,
                    threshCleanup, SatSq(250 * (2 * Grad9Of(v) + 10)))
      Cell(t, x, z) == Stone(Drawn(t, 1), Around(map, x, z, w, h), x, z, Rand(t.rs, 1) % 256)
      RECURSIVE Loop(_, _)
      Loop(t, i) == IF i >= w * h THEN t
                    ELSE Then(Cell(t, i % w, i \div w), LAMBDA u : Loop(u, i + 1))
  IN Then(RaiseLoop(srand(st, 0), 0), LAMBDA raised : Loop(srand(raised, 0), 0))

\* siz of setWater: 400 * (grad*3 + 0.01) with grad = 9*(9*(9 g^2)^2)^2, in
\* Milli-ths, saturating at SqrtD2Max.
WaterGrad(g) == (9 * g * g) \div Milli
WaterSizOf(g1) ==
  IF g1 >= Milli THEN SqrtD2Max
  ELSE IF WaterGrad(g1) >= Milli THEN SqrtD2Max
  ELSE IF WaterGrad(WaterGrad(g1)) >= Milli THEN SqrtD2Max
  ELSE Min(SqrtD2Max, 400 * (3 * WaterGrad(WaterGrad(g1)) + 10))
WaterSiz(gx, gz) == WaterSizOf(Grad9(gx, gz))

\* void Landscape::setWater(map, w, h, threshOuter, threshCleanup).
setWater(st, map, w, h, threshOuter, threshCleanup) ==
  LET Water(t, v, x, z) ==
        ContourCell(t, v, x, z, w, h, LANDSCAPE_TYPE_WATER, 0, threshOuter,
                    threshCleanup, SatSq(WaterSiz(v[3] - v[2], v[5] - v[4])))
      Cell(t, x, z) == Water(t, Around(map, x, z, w, h), x, z)
      RECURSIVE Loop(_, _)
      Loop(t, i) == IF i >= w * h THEN t
                    ELSE Then(Cell(t, i % w, i \div w), LAMBDA u : Loop(u, i + 1))
  IN Loop(srand(st, 0), 0)

\* The grass element setRoads drops beside a road element at (ex, ez): two
\* further rand() draws, overall size v1.
RoadGrass(t, ex, ez, v1) ==
  PushAt(Drawn(t, 2), LANDSCAPE_TYPE_GRASS, (Rand(t.rs, 1) % 4) + 16, v1, 0,
         SatSq(((Rand(t.rs, 2) % 256) * 150 * Milli) \div 255 + 50 * Milli), ex, ez, 0)

\* f of setRoads at (px, pz):
\* (sin(px+pz+sin(px*0.4-pz*0.2)+cos(px*0.7)-sin(pz*0.9))*0.5+0.5)*0.5+0.5.
RoadShade(px, pz) == (Noise(px, pz) \div 2 + 500) \div 2 + 500

\* The road element of setRoads at (ex, ez), after it one draw of rand(), and
\* with it a grass element when that draw has its low bits clear.
RoadWith(t, grass, ex, ez, v1) == IF grass THEN RoadGrass(t, ex, ez, v1) ELSE t
RoadAt(t, ex, ez, d, inner) ==
  RoadWith(Drawn(PushAt(t, LANDSCAPE_TYPE_ROAD,
                        IF inner THEN (RoadShade(ex, ez) * 255) \div Milli ELSE 0,
                        0, 0, d, ex, ez, 0), 1),
           Rand(t.rs, 1) % (IF inner THEN 16 ELSE 8) = 0,
           ex, ez, IF inner THEN 100 ELSE 200)
Road(t, v, x, z, w, h, thresh, d, inner) ==
  IF ~OnContour(v, thresh) THEN t
  ELSE RoadAt(t, ContourWorldX(v, x, w, thresh), ContourWorldZ(v, z, h, thresh), d, inner)

\* The second loop body of setRoads.
RoadCell(t, v, x, z, w, h, threshWayOuter, threshWayInner, threshCleanupMuchOuta, d) ==
  Cleanup(Road(Road(t, v, x, z, w, h, threshWayOuter, d, FALSE),
               v, x, z, w, h, threshWayInner, d, TRUE),
          v, x, z, w, h, threshCleanupMuchOuta, d)

\* void Landscape::setRoads(map, w, h, threshWayOuter, threshWayInner,
\* threshCleanupMuchOuta).
setRoads(st, map, w, h, threshWayOuter, threshWayInner, threshCleanupMuchOuta) ==
  LET Lower(t, x, z) ==
        IF map[(x * w) \div map_height_w + ((z * h) \div map_height_h) * w] >= threshWayOuter
        THEN AddHeight(t, WorldX(x * Milli, w), WorldZ(z * Milli, h),
                       -(RoadShade(WorldX(x * Milli, w), WorldZ(z * Milli, h)) \div 4))
        ELSE t
      RECURSIVE LowerLoop(_, _)
      LowerLoop(t, i) ==
        IF i >= map_height_w * map_height_h THEN t
        ELSE Then(Lower(t, i % map_height_w, i \div map_height_w),
                  LAMBDA u : LowerLoop(u, i + 1))
      Ways(t, v, x, z) ==
        RoadCell(t, v, x, z, w, h, threshWayOuter, threshWayInner,
                 threshCleanupMuchOuta, SatSq(500 * (3 * Grad9Of(v) + 10)))
      Cell(t, x, z) == Ways(t, Around(map, x, z, w, h), x, z)
      RECURSIVE Loop(_, _)
      Loop(t, i) == IF i >= w * h THEN t
                    ELSE Then(Cell(t, i % w, i \div w), LAMBDA u : Loop(u, i + 1))
  IN Then(LowerLoop(srand(st, 0), 0), LAMBDA lowered : Loop(lowered, 0))

\* Mutant of removeElementsWithType: the loop runs upwards and steps on after
\* an erase, so the element that moved into the erased slot is not looked at.
removeElementsWithTypeUpwards(sc, type) ==
  LET RECURSIVE Up(_, _)
      Up(s, i) == IF i >= Len(s) THEN s
                  ELSE IF s[i + 1].type = type
                  THEN Up(SubSeq(s, 1, i) \o SubSeq(s, i + 2, Len(s)), i + 1)
                  ELSE Up(s, i + 1)
  IN Up(sc, 0)

\* void Landscape::removeElementsWithType(type) on the list sc: the loop runs
\* i from size-1 down to 0 and erases scape[i] when its type matches.
removeElementsWithType(sc, type) ==
  LET RECURSIVE Down(_, _)
      Down(s, i) == IF i < 0 THEN s
                    ELSE IF s[i + 1].type = type
                    THEN Down(SubSeq(s, 1, i) \o SubSeq(s, i + 2, Len(s)), i - 1)
                    ELSE Down(s, i - 1)
  IN Down(sc, Len(sc) - 1)

\* Within squared distance: dx*dx + dy*dy + dz*dz < distanceThresholdSquared*k
\* for the camera (cx, cy, cz) and detailScale k = kn/kd.
Dist2(e, cx, cy, cz) ==
  (e.x - cx) * (e.x - cx) + (e.y - cy) * (e.y - cy) + (e.z - cz) * (e.z - cz)
InRange(e, cx, cy, cz, kn, kd) ==
  Dist2(e, cx, cy, cz) * kd < e.distanceThresholdSquared * kn

\* Mutant of collectLandscape: elements->clear() is missing.
collectLandscapeNoClear(elems, sc, cx, cy, cz, kn, kd) ==
  LET RECURSIVE Loop(_, _)
      Loop(acc, e) == IF e >= Len(sc) THEN acc
                      ELSE IF InRange(sc[e + 1], cx, cy, cz, kn, kd)
                      THEN Loop(Append(acc, e), e + 1)
                      ELSE Loop(acc, e + 1)
  IN Loop(elems, 0)

\* void Landscape::collectLandscape(elements, cx, cy, cz, detailScale): the
\* array afterwards; a pointer is the index of its element in scape.
collectLandscape(elems, sc, cx, cy, cz, kn, kd) ==
  LET RECURSIVE Loop(_, _)
      Loop(acc, e) == IF e >= Len(sc) THEN acc
                      ELSE IF InRange(sc[e + 1], cx, cy, cz, kn, kd)
                      THEN Loop(Append(acc, e), e + 1)
                      ELSE Loop(acc, e + 1)
  IN Loop(<<>>, 0)

(***************************************************************************)
(* LandscapeRaw: collectElements, delaunay, update.                        *)
(***************************************************************************)
\* (int)(dx*dx + dy*dy + dz*dz): the squared distance in whole world units.
IntDist2(e, cx, cy, cz) == Dist2(e, cx, cy, cz) \div (Milli * Milli)

\* Mutant of elementSortFunc: the sign is turned.
elementSortFuncTurned(v0, v1, cx, cy, cz) ==
  IntDist2(v1, cx, cy, cz) - IntDist2(v0, cx, cy, cz)

\* static int elementSortFunc(a, b), with (cx, cy, cz) the statics eSortCX,
\* eSortCY, eSortCZ: -((int)d1 - (int)d0).
elementSortFunc(v0, v1, cx, cy, cz) ==
  -(IntDist2(v1, cx, cy, cz) - IntDist2(v0, cx, cy, cz))

\* Mutant of triangleSortFunc: the operands are swapped.
triangleSortFuncSwapped(v0, v1) == v1[1] - v0[1]

\* static int triangleSortFunc(a, b).
triangleSortFunc(v0, v1) == v0[1] - v1[1]

\* qsort: the orders it may leave the array in are the permutations that the
\* comparison function agrees with (it is not stable).  Less(a, b) says that
\* the comparison of a with b is <= 0.
Sorted(arr, Less(_, _)) ==
  LET RECURSIVE Orders(_)
      Orders(S) ==
        IF S = {} THEN {<<>>}
        ELSE UNION {{<<arr[i]>> \o rest : rest \in Orders(S \ {i})} :
                    i \in {i \in S : \A j \in S : Less(arr[i], arr[j])}}
  IN Orders(DOMAIN arr)

\* The elements array after collectElements(cameraPos, detailScale): one of
\* the orders qsort may produce.
collectElements(elems, sc, cx, cy, cz, kn, kd) ==
  LET Less(a, b) == elementSortFunc(sc[a + 1], sc[b + 1], cx, cy, cz) <= 0
  IN Sorted(collectLandscape(elems, sc, cx, cy, cz, kn, kd), Less)

\* Mutant of IsGround: objects are triangulated too.
IsGroundOrObject(e) ==
  e.type \in {LANDSCAPE_TYPE_WATER, LANDSCAPE_TYPE_STONE, LANDSCAPE_TYPE_HEIGHT,
              LANDSCAPE_TYPE_ROAD, LANDSCAPE_TYPE_OBJECT}

\* The elements delaunay() triangulates.
IsGround(e) ==
  e.type \in {LANDSCAPE_TYPE_WATER, LANDSCAPE_TYPE_STONE, LANDSCAPE_TYPE_HEIGHT,
              LANDSCAPE_TYPE_ROAD}

\* The elements of elems (indices into sc) that are ground, in order.
GroundOf(elems, sc) == SelectSeq(elems, LAMBDA e : IsGround(sc[e + 1]))

\* Three points <<x, z>> on one line.
Collinear(a, b, c) == (b[1] - a[1]) * (c[2] - a[2]) = (c[1] - a[1]) * (b[2] - a[2])

\* Delaunator::delaunator(points) and its triangles array, as flat index
\* triples: none for fewer than three points or points on one line, otherwise
\* a triangulation (of the many the triangulator may return, the fans around
\* the first and around the last point stand here).
Delaunator(pts) ==
  LET n == Len(pts) \div 2
      P(i) == <<pts[2 * i + 1], pts[2 * i + 2]>>
      flat == \A i \in 0..(n - 1) : Collinear(P(0), P(1), P(i))
      fanFirst == [i \in 1..(n - 2) |-> <<n - 1 - i, n - i, 0>>]
      fanLast  == [i \in 1..(n - 2) |-> <<n - 2 - i, n - 1 - i, n - 1>>]
  IN IF n < 3 \/ flat THEN {<<>>} ELSE {fanFirst, fanLast}

(***************************************************************************)
(* Landscape(x0,z0,x1,z1,y0,y1) and LandscapeRaw(scape): the state after   *)
(* construction.                                                           *)
(***************************************************************************)
NewLandscape(x0, z0, x1, z1, y0, y1) ==
  /\ minX = x0 /\ maxX = x1 /\ minZ = z0 /\ maxZ = z1 /\ minY = y0 /\ maxY = y1
  /\ map_height = Null /\ map_boden = Null
  /\ map_height_w = 0 /\ map_height_h = 0
  /\ scape = <<>>
  /\ randState = 1

NewLandscapeRaw ==
  /\ out = <<>>
  /\ elements = <<>> /\ points = <<>> /\ types = <<>> /\ vertices = <<>>
  /\ parameters = <<>> /\ triangles = <<>>
  /\ eSortCX = 0 /\ eSortCY = 0 /\ eSortCZ = 0

\* LandscapeEdit(scape, raw, cameraPos, details), with f the content of the
\* file that setObjectsFile will be given; the static image o is empty.
\* edited: the name of the last call on the LandscapeEdit, the number n of
\* editing calls so far, its arguments, the image before the call, whether
\* the call has run savePNG and with what result, and whether it has
\* refreshed.
\* fresh says that refreshObjects has run since the image was loaded.
\* An RGBAImage without data: the image after free(), the file that is not.
NoImage == [width |-> 0, height |-> 0, data |-> Null]
EditNone ==
  [op |-> "none", n |-> 0, arg |-> <<>>, before |-> NoImage, saved |-> "none",
   refreshed |-> FALSE, fresh |-> FALSE]
NewLandscapeEdit(f) ==
  /\ o = NoImage
  /\ objects = Null
  /\ file = f
  /\ edited = EditNone
  /\ other = Null

(***************************************************************************)
(* WAVOBJ_Mesh and preprocessMesh (O_WAVOBJ.CPP).  A Vector is <<x, y, z>> *)
(* in Milli-ths.                                                           *)
(***************************************************************************)
\* A mesh as the loaders hand it to preprocessMesh: the boundings are not
\* assigned yet.
NewMesh(positions, parts) ==
  [positions |-> positions, parts |-> parts, minBounding |-> Null,
   maxBounding |-> Null, center |-> Null, boundingRadius |-> 0, bounds |-> <<>>,
   done |-> FALSE]
NoMesh == NewMesh(<<>>, <<>>)

\* The six lines 'if (l==0 || v->x > bbmax.x) bbmax.x = v->x; ...' for one
\* vertex v, on the running box bb = [bbmin, bbmax].
bbStep(bb, v, l) ==
  IF l = 0 THEN [bbmin |-> v, bbmax |-> v]
  ELSE [bbmin |-> [c \in 1..3 |-> Min(bb.bbmin[c], v[c])],
        bbmax |-> [c \in 1..3 |-> Max(bb.bbmax[c], v[c])]]

\* The running box after the vertices vs, the counter being l before them.
RECURSIVE bbLoop(_, _, _)
bbLoop(bb, vs, l) ==
  IF vs = <<>> THEN bb ELSE bbLoop(bbStep(bb, vs[1], l), Tail(vs), l + 1)

\* m->positions[p->faces[j].p[k]] for j, k in the order of the loops.
RECURSIVE FaceVertices(_, _)
FaceVertices(positions, faces) ==
  IF faces = <<>> THEN <<>>
  ELSE [k \in DOMAIN faces[1] |-> positions[faces[1][k] + 1]]
         \o FaceVertices(positions, Tail(faces))

\* (bbmin+bbmax)*0.5 and length(bbmax - c).
BoxCenter(bb) == [c \in 1..3 |-> TruncDiv(bb.bbmin[c] + bb.bbmax[c], 2)]
BoxRadius(bb, c) ==
  Sqrt((bb.bbmax[1] - c[1]) * (bb.bbmax[1] - c[1])
         + (bb.bbmax[2] - c[2]) * (bb.bbmax[2] - c[2])
         + (bb.bbmax[3] - c[3]) * (bb.bbmax[3] - c[3]))

\* Mutant of partBox: the counter l never is 0, the box is not started anew.
partBoxRunning(bb, vs) == bbLoop(bb, vs, 1)

\* The running box after the loops over the faces of one part: 'int l = 0'
\* precedes them.
partBox(bb, vs) == bbLoop(bb, vs, 0)

\* The boundings of the parts from part i on, bb being the running box
\* before part i and mc the center of the mesh.
RECURSIVE partBounds(_, _, _, _)
partBounds(m, bb, mc, i) ==
  IF i > Len(m.parts) THEN <<>>
  ELSE LET b == partBox(bb, FaceVertices(m.positions, m.parts[i]))
       IN <<[minBounding |-> b.bbmin, maxBounding |-> b.bbmax,
             center |-> BoxCenter(b), boundingRadius |-> BoxRadius(b, mc)]>>
            \o partBounds(m, b, mc, i + 1)

\* static void preprocessMesh(WAVOBJ_Mesh *m), for a mesh with a position.
preprocessMesh(m) ==
  LET bb == bbLoop(<<>>, m.positions, 0)
      mc == BoxCenter(bb)
  IN [m EXCEPT !.minBounding = bb.bbmin, !.maxBounding = bb.bbmax,
               !.center = mc, !.boundingRadius = BoxRadius(bb, mc),
               !.bounds = partBounds(m, bb, mc, 1), !.done = TRUE]

\* A loader calls preprocessMesh on the mesh it has read.
PreprocessMesh ==
  /\ ~mesh.done
  /\ mesh' = preprocessMesh(mesh)
  /\ UNCHANGED <<coll, line, pt, stamps, landVars, rawVars, last, editVars>>

\* last: the name of the last call on the Landscape or the LandscapeRaw, the
\* number n of mutating calls and the number q of collecting calls so far,
\* the arguments, the element list and the heightmap before the call and
\* what the call returned.
LastNone ==
  [op |-> "none", n |-> 0, q |-> 0, arg |-> <<>>, before |-> <<>>, map |-> Null, ret |-> 0]
LastCall(op, arg, ret) ==
  [op |-> op, n |-> last.n + 1, q |-> last.q, arg |-> arg, before |-> scape,
   map |-> map_height, ret |-> ret]
LastQuery(op, arg, ret) ==
  [op |-> op, n |-> last.n, q |-> last.q, arg |-> arg, before |-> scape,
   map |-> map_height, ret |-> ret]
LastCollect(op, arg, ret) ==
  [op |-> op, n |-> last.n, q |-> last.q + 1, arg |-> arg, before |-> scape,
   map |-> map_height, ret |-> ret]

\* Bounds of the Landscape models: the number of generating calls (one
\* removeElementsWithType may follow them) and the number of collecting calls.
MaxOps == 2
MaxCollects == 2

bndVars == <<minX, maxX, minY, maxY, minZ, maxZ>>
St == [scape |-> scape, map |-> map_height, rs |-> randState]

\* The call op(arg) leaves the element list, the heightmap and the rand()
\* state as in t.
Generated(op, arg, t) ==
  /\ last.n < MaxOps
  /\ \E u \in {t} : scape' = u.scape /\ map_height' = u.map /\ randState' = u.rs
  /\ last' = LastCall(op, arg, 0)
  /\ UNCHANGED <<mesh, editVars, collVars, bndVars, map_boden, map_height_w, map_height_h, rawVars>>

\* What a field that was never assigned may hold: a byte, and a float in
\* Milli-ths.
Indeterminate == {0, 205}
IndeterminateFloat == {0, -4 * Milli}

\* setHeightMap(mask, map, w, h, stepX, stepZ, distFact, steepThresh, boden).
\* The loop writes one element per visited cell that passes the filters, into
\* the (w/stepX)*(h/stepZ) slots reserved; when it writes more than that, the
\* writes beyond the end of the array either stay (kept) or are lost to the
\* closing scape.resize(k), which then adds unassigned elements.
SetHeightMap(mask, map, w, h, stepX, stepZ, distFact, steepThresh, boden) ==
  /\ last.n < MaxOps
  /\ \E unset \in Indeterminate, junk \in IndeterminateFloat, kept \in BOOLEAN :
     \E els \in {setHeightMapElements(mask, map, w, h, stepX, stepZ, distFact,
                                      steepThresh, boden, unset)} :
       LET res == setHeightMapReserved(w, h, stepX, stepZ)
           lost == [i \in 1..(Len(els) - res) |->
                      LandscapeElement(unset, unset, unset, unset, junk, junk,
                                       junk, junk)]
       IN scape' = IF Len(els) <= res \/ kept THEN scape \o els
                   ELSE scape \o SubSeq(els, 1, res) \o lost
  /\ map_boden' = boden /\ map_height' = map
  /\ map_height_w' = w /\ map_height_h' = h
  /\ last' = LastCall("setHeightMap", <<w, h, stepX, stepZ, distFact>>, 0)
  /\ UNCHANGED <<mesh, editVars, collVars, bndVars, randState, rawVars>>

\* The generators below read the heightmap: it must have been set, and the
\* layer they scan must not be larger than it (insertEmpty indexes the
\* heightmap with the layer's coordinates).
Readable(w, h) ==
  /\ map_height # Null
  /\ w <= map_height_w /\ h <= map_height_h

SetObjects(rgba, w, h) ==
  /\ map_height # Null
  /\ Generated("setObjects", <<rgba, w, h>>, setObjects(St, rgba, w, h))

InsertEmpty(x2, z2, w, h, distFact) ==
  /\ Readable(w, h)
  /\ Generated("insertEmpty", <<x2, z2, w, h, distFact>>,
               insertEmpty(St, x2, z2, w, h, distFact))

SetTrees(mask, map, w, h, randomModulo) ==
  /\ map_height # Null
  /\ Generated("setTrees", <<mask, map, w, h, randomModulo>>,
               setTrees(St, mask, map, w, h, randomModulo))

SetGrass(mask, map, w, h, randomModulo) ==
  /\ map_height # Null
  /\ Generated("setGrass", <<mask, map, w, h, randomModulo>>,
               setGrass(St, mask, map, w, h, randomModulo))

SetFlowers(mask, map, w, h, randomModulo) ==
  /\ map_height # Null
  /\ Generated("setFlowers", <<mask, map, w, h, randomModulo>>,
               setFlowers(St, mask, map, w, h, randomModulo))

SetStones(map, w, h, threshOuter, threshCleanup) ==
  /\ Readable(w, h)
  /\ Generated("setStones", <<map, w, h, threshOuter, threshCleanup>>,
               setStones(St, map, w, h, threshOuter, threshCleanup))

SetWater(map, w, h, threshOuter, threshCleanup) ==
  /\ Readable(w, h)
  /\ Generated("setWater", <<map, w, h, threshOuter, threshCleanup>>,
               setWater(St, map, w, h, threshOuter, threshCleanup))

SetRoads(map, w, h, threshWayOuter, threshWayInner, threshCleanupMuchOuta) ==
  /\ Readable(w, h)
  /\ Generated("setRoads", <<map, w, h, threshWayOuter, threshWayInner,
                             threshCleanupMuchOuta>>,
               setRoads(St, map, w, h, threshWayOuter, threshWayInner,
                        threshCleanupMuchOuta))

RemoveElementsWithType(type) ==
  /\ last.n <= MaxOps
  /\ scape' = removeElementsWithType(scape, type)
  /\ last' = LastCall("removeElementsWithType", <<type>>, 0)
  /\ UNCHANGED <<mesh, editVars, collVars, bndVars, map_height, map_boden, map_height_w, map_height_h,
                 randState, rawVars>>

PutHeight(x, z, height) ==
  /\ map_height # Null
  /\ Generated("putHeight", <<x, z, height>>,
               [St EXCEPT !.map = putHeightData(map_height, x, z, height)])

GetHeight(x, z, xa, za) ==
  /\ map_height # Null
  /\ last' = LastQuery("getHeight", <<x, z, xa, za>>, getHeight(map_height, x, z, xa, za))
  /\ UNCHANGED <<mesh, editVars, collVars, landVars, rawVars>>

HitThresh(center, left, right, thresh) ==
  /\ last' = LastQuery("hitThresh", <<center, left, right, thresh>>,
                       hitThresh(center, left, right, thresh))
  /\ UNCHANGED <<mesh, editVars, collVars, landVars, rawVars>>

\* A caller hands its array out to Landscape::collectLandscape.
CollectLandscape(cx, cy, cz, kn, kd) ==
  /\ last.q < MaxCollects
  /\ out' = collectLandscape(out, scape, cx, cy, cz, kn, kd)
  /\ last' = LastCollect("collectLandscape", <<cx, cy, cz, kn, kd>>, out)
  /\ UNCHANGED <<mesh, editVars, collVars, landVars, elements, points, types, vertices, parameters,
                 triangles, eSortCX, eSortCY, eSortCZ>>

\* x0, z0, x1, z1, ... of a sequence of elements.
RECURSIVE FlatXZ(_)
FlatXZ(es) == IF es = <<>> THEN <<>> ELSE <<es[1].x, es[1].z>> \o FlatXZ(Tail(es))

\* void LandscapeRaw::update(cameraPos, detailScale) on the master list sc:
\* collectElements, then delaunay.
updateOn(sc, cx, cy, cz, kn, kd) ==
  /\ \E sorted \in collectElements(elements, sc, cx, cy, cz, kn, kd) :
       LET ground == [i \in DOMAIN GroundOf(sorted, sc) |->
                        sc[GroundOf(sorted, sc)[i] + 1]]
           pts == FlatXZ(ground)
       IN /\ elements' = sorted
          /\ points' = pts
          /\ types' = [i \in DOMAIN ground |-> ground[i].type]
          /\ vertices' = [i \in DOMAIN ground |-> <<ground[i].x, ground[i].y, ground[i].z>>]
          /\ parameters' = [i \in DOMAIN ground |->
                               <<(ground[i].v0 * Milli) \div 255,
                                 (ground[i].v1 * Milli) \div 255,
                                 (ground[i].v2 * Milli) \div 255>>]
          /\ \E tri \in Delaunator(pts) :
               triangles' \in Sorted(tri, LAMBDA a, b : triangleSortFunc(a, b) <= 0)
  /\ eSortCX' = cx /\ eSortCY' = cy /\ eSortCZ' = cz

\* A caller's update; last.ret keeps the size that points had before.
Update(cx, cy, cz, kn, kd) ==
  /\ last.q < MaxCollects
  /\ updateOn(scape, cx, cy, cz, kn, kd)
  /\ last' = LastCollect("update", <<cx, cy, cz, kn, kd>>, Len(points))
  /\ UNCHANGED <<mesh, editVars, collVars, landVars, out>>


(***************************************************************************)
(* LandscapeEdit: setObjectsFile, refreshObjects, placeObject,             *)
(* rotateObjectY, removeObjects.  A pixel is the unsigned int               *)
(* r|(g<<8)|(b<<16)|(a<<24), with a below 128 here.                         *)
(***************************************************************************)
\* a | b on naturals.
RECURSIVE BitOr(_, _)
BitOr(a, b) ==
  IF a = 0 THEN b
  ELSE IF b = 0 THEN a
  ELSE (IF a % 2 = 1 \/ b % 2 = 1 THEN 1 ELSE 0) + 2 * BitOr(a \div 2, b \div 2)

\* r|(g<<8)|(b<<16)|(a<<24), and (p >> 8*k) & 255.
Pixel(r, g, b, a) == BitOr(BitOr(BitOr(r, g * 256), b * 65536), a * 16777216)
Channel(p, k) ==
  (p \div (CASE k = 0 -> 1 [] k = 1 -> 256 [] k = 2 -> 65536 [] k = 3 -> 16777216)) % 256

\* The raster as setObjects reads it: a pixel as <<r, g, b, a>>.
Channels(data) ==
  [i \in DOMAIN data |->
     <<Channel(data[i], 0), Channel(data[i], 1), Channel(data[i], 2), Channel(data[i], 3)>>]

\* px = (float)(pos->x - scape->minX) / (scape->maxX - scape->minX) * width,
\* converted to int.
CellOf(pos, lo, hi, n) == TruncDiv((pos - lo) * n, hi - lo)

\* (unsigned int)x >= width.
OutOfRaster(x, n) == x < 0 \/ x >= n

\* The cell (x, z) lies in the box of 2 cells around (px, pz).
InBox(x, z, px, pz) == px - 2 <= x /\ x <= px + 2 /\ pz - 2 <= z /\ z <= pz + 2

\* Mutant of placeObjectData: objectId is not masked with 63.
placeObjectDataUnmasked(img, px, pz, objectId) ==
  [img.data EXCEPT ![px + pz * img.width] = Pixel(objectId * 4 + 2, 0, 0, 0)]

\* objects->data after placeObject has written the pixel of the cell.
placeObjectData(img, px, pz, objectId) ==
  [img.data EXCEPT ![px + pz * img.width] = Pixel((objectId % 64) * 4 + 2, 0, 0, 0)]

\* Mutant of rotateObjectYData: the object type R/4 decides, not R.
rotateObjectYDataByType(img, px, pz, rotation) ==
  [i \in DOMAIN img.data |->
     IF InBox(i % img.width, i \div img.width, px, pz) /\ Channel(img.data[i], 0) \div 4 # 0
     THEN Pixel(Channel(img.data[i], 0), rotation * 4 + 2, Channel(img.data[i], 2),
                Channel(img.data[i], 3))
     ELSE img.data[i]]

\* objects->data after the loops of rotateObjectY.
rotateObjectYData(img, px, pz, rotation) ==
  [i \in DOMAIN img.data |->
     IF InBox(i % img.width, i \div img.width, px, pz) /\ Channel(img.data[i], 0) # 0
     THEN Pixel(Channel(img.data[i], 0), rotation * 4 + 2, Channel(img.data[i], 2),
                Channel(img.data[i], 3))
     ELSE img.data[i]]

\* some of rotateObjectY: a pixel of the box had r != 0.
rotateObjectYSome(img, px, pz) ==
  \E i \in DOMAIN img.data :
    InBox(i % img.width, i \div img.width, px, pz) /\ Channel(img.data[i], 0) # 0

\* objects->data after the loops of removeObjects.
removeObjectsData(img, px, pz) ==
  [i \in DOMAIN img.data |->
     IF InBox(i % img.width, i \div img.width, px, pz) THEN Pixel(0, 0, 0, 0)
     ELSE img.data[i]]

\* Mutant of refreshObjectsScape: the old objects are not removed.
refreshObjectsScapeKeeping(sc, img) ==
  setObjects([scape |-> sc, map |-> map_height, rs |-> randState],
             Channels(img.data), img.width, img.height).scape

\* The master list after the first two calls of refreshObjects:
\* removeElementsWithType(LANDSCAPE_TYPE_OBJECT), setObjects(objects->data,
\* objects->width, objects->height).
refreshObjectsScape(sc, img) ==
  setObjects([scape |-> removeElementsWithType(sc, LANDSCAPE_TYPE_OBJECT),
              map |-> map_height, rs |-> randState],
             Channels(img.data), img.width, img.height).scape

\* Bound of the LandscapeEdit model: the number of editing calls.
MaxEdits == 2

\* *cameraPos and *details of the LandscapeEdit.
EditCamera == <<1200, 0, 2 * Milli>>
EditDetails == <<5, 1>>

\* void LandscapeEdit::setObjectsFile(fileName, w, h): the static image is
\* freed and loaded from the file; without a file it is a zeroed w x h image.
SetObjectsFile(w, h) ==
  /\ objects = Null
  /\ o' = IF file.data # Null THEN file
          ELSE [width |-> w, height |-> h, data |-> [i \in 0..(w * h - 1) |-> 0]]
  /\ objects' = <<"o">>
  /\ edited' = [op |-> "setObjectsFile", n |-> edited.n, arg |-> <<w, h>>, before |-> o,
                saved |-> "none", refreshed |-> FALSE, fresh |-> FALSE]
  /\ UNCHANGED <<mesh, file, other, collVars, landVars, rawVars, last>>

\* void LandscapeEdit::refreshObjects() for the image img:
\* removeElementsWithType, setObjects, raw->update(*cameraPos, *details).
refreshObjects(img) ==
  /\ \E sc \in {refreshObjectsScape(scape, img)} :
       /\ scape' = sc
       /\ updateOn(sc, EditCamera[1], EditCamera[2], EditCamera[3],
                   EditDetails[1], EditDetails[2])
  /\ last' = LastQuery("refreshObjects", <<>>, 0)
  /\ UNCHANGED <<collVars, bndVars, map_height, map_boden, map_height_w, map_height_h,
                 randState, out>>

RefreshObjects ==
  /\ objects # Null /\ map_height # Null
  /\ refreshObjects(o)
  /\ edited' = [op |-> "refreshObjects", n |-> edited.n, arg |-> <<>>, before |-> o,
                saved |-> "none", refreshed |-> TRUE, fresh |-> TRUE]
  /\ UNCHANGED <<mesh, o, objects, file, other>>

\* An editing call that returns before it has changed anything.
Returned(op, arg) ==
  /\ edited' = [op |-> op, n |-> edited.n + 1, arg |-> arg, before |-> o,
                saved |-> "none", refreshed |-> FALSE, fresh |-> edited.fresh]
  /\ UNCHANGED <<mesh, o, objects, file, other, collVars, landVars, rawVars, last>>

\* An editing call that has left data in the image: objects->savePNG writes
\* the file or fails, its result is not looked at, and refreshObjects runs
\* if refreshes says so.
Persisted(op, arg, data, saves, refreshes) ==
  /\ o' = [o EXCEPT !.data = data]
  /\ \E ok \in (IF saves THEN BOOLEAN ELSE {FALSE}) :
       /\ file' = IF ok THEN [o EXCEPT !.data = data] ELSE file
       /\ edited' = [op |-> op, n |-> edited.n + 1, arg |-> arg, before |-> o,
                     saved |-> IF ~saves THEN "none" ELSE IF ok THEN "ok" ELSE "failed",
                     refreshed |-> refreshes, fresh |-> edited.fresh \/ refreshes]
  /\ IF refreshes THEN refreshObjects([o EXCEPT !.data = data])
     ELSE UNCHANGED <<collVars, landVars, rawVars, last>>
  /\ UNCHANGED <<mesh, objects, other>>

\* The guard of the editing calls: the image is loaded, the heightmap that
\* setObjects reads is set.
Editable == objects # Null /\ map_height # Null /\ edited.n < MaxEdits

\* void LandscapeEdit::placeObject(pos, objectId).
PlaceObject(x, z, objectId) ==
  /\ Editable
  /\ LET px == CellOf(x, minX, maxX, o.width)
         pz == CellOf(z, minZ, maxZ, o.height)
     IN IF OutOfRaster(px, o.width) \/ OutOfRaster(pz, o.height)
        THEN Returned("placeObject", <<x, z, objectId>>)
        ELSE Persisted("placeObject", <<x, z, objectId>>,
                       placeObjectData(o, px, pz, objectId), TRUE, TRUE)

\* void LandscapeEdit::rotateObjectY(pos, rotation).
RotateObjectY(x, z, rotation) ==
  /\ Editable
  /\ LET px == CellOf(x, minX, maxX, o.width)
         pz == CellOf(z, minZ, maxZ, o.height)
     IN Persisted("rotateObjectY", <<x, z, rotation>>,
                  rotateObjectYData(o, px, pz, rotation),
                  rotateObjectYSome(o, px, pz), rotateObjectYSome(o, px, pz))

\* void LandscapeEdit::removeObjects(pos).
RemoveObjects(x, z) ==
  /\ Editable
  /\ LET px == CellOf(x, minX, maxX, o.width)
         pz == CellOf(z, minZ, maxZ, o.height)
     IN Persisted("removeObjects", <<x, z>>, removeObjectsData(o, px, pz), TRUE, TRUE)

(***************************************************************************)
(* SpecColl: a LandscapeCollision of FieldW x FieldW cells, CellUnits wide *)
(* and 2*CellUnits deep, whose X range starts below zero.                  *)
(***************************************************************************)
InitColl ==
  /\ coll = NewCollision(-CellUnits, 0, (FieldW - 1) * CellUnits,
                         FieldW * 2 * CellUnits, FieldW, FieldW)
  /\ line = LineIdle
  /\ pt = PtIdle
  /\ stamps = 0
  /\ NewLandscape(0, 0, 2 * Milli, 2 * Milli, 0, 2 * Milli)
  /\ NewLandscapeRaw
  /\ NewLandscapeEdit(NoImage)
  /\ mesh = NoMesh
  /\ last = LastNone

\* Inputs of the collision model: discs <<x, z, rad>>, 2x2 masks with
\* <<scale, add>> in Milli-ths, segment starts, directions <<a, b, c>> with
\* a^2 + b^2 = c^2 and lengths (multiples of c), sample points.
Discs == {<<0, 200, 50>>, <<130, 250, 75>>}
Masks2 == {<<0, 255, 0, 0>>, <<255, 255, 0, 255>>, <<0, 0, 255, 130>>}
Scales == {<<1000, 0>>, <<500, 250>>}
Starts == {<<-90, 10>>, <<50, 300>>, <<100, 210>>, <<-120, 100>>}
Dirs == {<<1, 0, 1>>, <<0, -1, 1>>, <<3, 4, 5>>, <<-4, -3, 5>>}
Lens == {0, 40, 148, 150}
Probes == {<<x, z>> : x \in {-150, -100, -45, 0, 130, 199, 200, 300},
                     z \in {-1, 0, 90, 399, 601, 800}}

\* The segments <<x0, z0, x1, z1>>: a start, a direction and a length whose
\* end point is on the lattice.
Rays ==
  {<<t[1][1], t[1][2], t[1][1] + (t[2][1] * t[3]) \div t[2][3],
     t[1][2] + (t[2][2] * t[3]) \div t[2][3]>> :
     t \in {u \in Starts \X Dirs \X Lens :
              (u[2][1] * u[3]) % u[2][3] = 0 /\ (u[2][2] * u[3]) % u[2][3] = 0}}

\* A mask tuple as the 0-based array the code indexes.
MaskArray(m) == [i \in 0..(Len(m) - 1) |-> m[i + 1]]

NextColl ==
  \/ \E c \in Discs : PlaceCircle(c[1], c[2], c[3])
  \/ \E m \in Masks2, sa \in Scales : PlaceMask(MaskArray(m), 2, 2, sa[1], sa[2])
  \/ \E b \in {1} : BoxBlur(b)
  \/ \E r \in Rays : CollideLine(r[1], r[2], r[3], r[4])
  \/ \E p \in Probes : PointQuery(p[1], p[2])

SpecColl == InitColl /\ [][NextColl]_vars

(***************************************************************************)
(* SpecLine: SpecColl with segments whose length is beyond the range of a  *)
(* double.                                                                 *)
(***************************************************************************)
InitLine == InitColl

\* From the starts of Rays to a point Huge away along x or z.
FarRays ==
  {<<st[1], st[2], st[1] + Huge, st[2]>> : st \in Starts}
    \cup {<<st[1], st[2], st[1], st[2] - Huge>> : st \in Starts}

NextLine ==
  \/ \E c \in Discs : PlaceCircle(c[1], c[2], c[3])
  \/ \E m \in Masks2, sa \in Scales : PlaceMask(MaskArray(m), 2, 2, sa[1], sa[2])
  \/ \E r \in Rays \cup FarRays : CollideLine(r[1], r[2], r[3], r[4])

SpecLine == InitLine /\ [][NextLine]_vars

(***************************************************************************)
(* SpecDisc: the collision scenarios of the specification, section 8:      *)
(* CollisionField(0,0,10,10, 100,100), stamp_disc(5,5,1.0), and the three  *)
(* segments (0,5)->(10,5), (0,0)->(10,0), (5,5)->(10,5).                   *)
(***************************************************************************)
InitDisc ==
  /\ coll = NewCollision(0, 0, 10 * Milli, 10 * Milli, 100, 100)
  /\ line = LineIdle
  /\ pt = PtIdle
  /\ stamps = 0
  /\ NewLandscape(0, 0, 2 * Milli, 2 * Milli, 0, 2 * Milli)
  /\ NewLandscapeRaw
  /\ NewLandscapeEdit(NoImage)
  /\ mesh = NoMesh
  /\ last = LastNone

DiscHitRay  == <<0, 5 * Milli, 10 * Milli, 5 * Milli>>
DiscMissRay == <<0, 0, 10 * Milli, 0>>
InsideRay   == <<5 * Milli, 5 * Milli, 10 * Milli, 5 * Milli>>

\* Segments along X and along Z towards the far border, among them the three
\* of the scenarios, and sample points.
DiscLanes == {0, 2500, 4000, 5000, 6000, 7500, 10000}
DiscRays ==
  {<<a, z, 10 * Milli, z>> : a \in {0, 5 * Milli}, z \in DiscLanes}
    \cup {<<x, a, x, 10 * Milli>> : a \in {0, 5 * Milli}, x \in DiscLanes}
DiscProbes == {<<x, z>> : x \in {-50, 4050, 4500, 5000, 5950, 9900},
                         z \in {0, 4050, 5000, 5500, 9899}}

NextDisc ==
  \/ PlaceCircle(5 * Milli, 5 * Milli, Milli)
  \/ \E r \in DiscRays : CollideLine(r[1], r[2], r[3], r[4])
  \/ \E p \in DiscProbes : PointQuery(p[1], p[2])

SpecDisc == InitDisc /\ [][NextDisc]_vars

(***************************************************************************)
(* SpecHeight: the height scenario of the specification, section 8: a      *)
(* Landscape over 0..1 x 0..1 with minY = 0 and maxY = 100, the 2x2        *)
(* heightmap [0, 65535, 65535, 0], and height queries on a lattice.        *)
(***************************************************************************)
InitHeight ==
  /\ coll = NewCollision(0, 0, Milli, Milli, 2, 2)
  /\ line = LineIdle
  /\ pt = PtIdle
  /\ stamps = 0
  /\ NewLandscape(0, 0, Milli, Milli, 0, 100 * Milli)
  /\ NewLandscapeRaw
  /\ NewLandscapeEdit(NoImage)
  /\ mesh = NoMesh
  /\ last = LastNone

Zero4 == MaskArray(<<0, 0, 0, 0>>)
SaddleMap == MaskArray(<<0, 65535, 65535, 0>>)
HeightLattice == {-100, 0, 125, 250, 375, 500, 625, 750, 875, 999, 1000, 1200}
\* Points <<x, z>> for the queries with xa and za: below minX, above maxX,
\* above maxZ, and inside.
OffsetPoints == {<<-100, 500>>, <<1200, -100>>, <<500, 1200>>, <<250, 250>>}

NextHeight ==
  \/ SetHeightMap(Zero4, SaddleMap, 2, 2, 1, 1, Milli, 0, Zero4)
  \/ \E x \in HeightLattice, z \in HeightLattice : GetHeight(x, z, 0, 0)
  \/ \E p \in OffsetPoints, xa \in {-1, 2}, za \in {-1, 1} : GetHeight(p[1], p[2], xa, za)
  \/ \E x \in {250, 500}, y \in {-Milli, 25 * Milli, 200 * Milli} : PutHeight(x, 250, y)

SpecHeight == InitHeight /\ [][NextHeight]_vars

(***************************************************************************)
(* SpecScape: a Landscape over 0..2 x 0..2 with heights 0..2, filled by    *)
(* the element generators in any order and thinned by                      *)
(* removeElementsWithType.                                                 *)
(***************************************************************************)
InitScape ==
  /\ coll = NewCollision(0, 0, 2 * Milli, 2 * Milli, 2, 2)
  /\ line = LineIdle
  /\ pt = PtIdle
  /\ stamps = 0
  /\ NewLandscape(0, 0, 2 * Milli, 2 * Milli, 0, 2 * Milli)
  /\ NewLandscapeRaw
  /\ NewLandscapeEdit(NoImage)
  /\ mesh = NoMesh
  /\ last = LastNone

\* Layers of the model: 2x2 and 3x3 rasters, row-major.
Zero9 == MaskArray(<<0, 0, 0, 0, 0, 0, 0, 0, 0>>)
HillMap == MaskArray(<<0, 21845, 0, 21845, 65535, 43690, 0, 43690, 0>>)
Soil4 == MaskArray(<<1, 2, 3, 4>>)
Soil9 == MaskArray(<<1, 2, 3, 4, 5, 6, 7, 8, 9>>)
\* setHeightMap arguments <<mask, map, w, h, stepX, stepZ, distFact,
\* steepThresh, boden>>: the saddle, the hill with its inner cell kept,
\* the hill at step 2, which visits more cells than (w/stepX)*(h/stepZ), and
\* the ridge, which is 2 cells wide and 4 cells long.
Zero8 == MaskArray(<<0, 0, 0, 0, 0, 0, 0, 0>>)
RidgeMap == MaskArray(<<0, 65535, 0, 65535, 0, 65535, 0, 65535>>)
Soil8 == MaskArray(<<1, 2, 3, 4, 5, 6, 7, 8>>)
HeightArgs ==
  {<<Zero4, SaddleMap, 2, 2, 1, 1, 2, 0, Soil4>>,
   <<Zero9, HillMap, 3, 3, 1, 1, 2, 0, Soil9>>,
   <<Zero9, HillMap, 3, 3, 2, 2, 2, 0, Soil9>>,
   <<Zero8, RidgeMap, 2, 4, 1, 1, 2, 0, Soil8>>}
Sparse4 == MaskArray(<<255, 0, 0, 0>>)
Full4 == MaskArray(<<255, 255, 255, 255>>)
Slope4 == MaskArray(<<200, 100, 50, 0>>)
\* Object rasters: a pixel <<r, g, b, a>>; r \div 4 is the object number.
Objects4 == MaskArray(<<<<4, 8, 12, 0>>, <<0, 0, 0, 0>>, <<16, 0, 0, 0>>, <<3, 0, 0, 0>>>>)
Objects1 == MaskArray(<< <<20, 40, 60, 255>> >>)

SetHeightMapAny ==
  \E a \in HeightArgs : SetHeightMap(a[1], a[2], a[3], a[4], a[5], a[6], a[7], a[8], a[9])

NextScape ==
  \/ SetHeightMapAny
  \/ \E r \in {<<Objects4, 2, 2>>, <<Objects1, 1, 1>>} : SetObjects(r[1], r[2], r[3])
  \/ \E x \in {500, 1700} : InsertEmpty(x, 1000, 2, 2, 250000)
  \/ \E m \in {Zero4, Sparse4} : SetTrees(m, Full4, 2, 2, 1)
  \/ \E k \in {1, 2} : SetGrass(Zero4, Full4, 2, 2, k)
  \/ \E m \in {Zero4, Sparse4} : SetFlowers(m, Full4, 2, 2, 1)
  \/ \E m \in {Sparse4, Slope4} : SetStones(m, 2, 2, 128, 64)
  \/ \E m \in {Sparse4, Slope4} : SetWater(m, 2, 2, 128, 64)
  \/ \E m \in {Sparse4, Slope4} : SetRoads(m, 2, 2, 128, 192, 64)
  \/ \E t \in {LANDSCAPE_TYPE_HEIGHT, LANDSCAPE_TYPE_GRASS, LANDSCAPE_TYPE_OBJECT} :
        RemoveElementsWithType(t)

SpecScape == InitScape /\ [][NextScape]_vars

(***************************************************************************)
(* SpecThresh: hitThresh on the Landscape of SpecScape, for every choice   *)
(* of center, left, right and thresh among five layer values.              *)
(***************************************************************************)
InitThresh == InitScape

\* Layer values: those of the example in the source (128, 256, 512, 192).
Levels == {0, 128, 192, 256, 512}

NextThresh ==
  \E center \in Levels, left \in Levels, right \in Levels, thresh \in Levels :
    HitThresh(center, left, right, thresh)

SpecThresh == InitThresh /\ [][NextThresh]_vars

(***************************************************************************)
(* SpecView: the Landscape of SpecScape, whose heightmap is set once (the  *)
(* saddle) and whose objects are set any number of times, and a caller and *)
(* a LandscapeRaw that collect the elements for two cameras at two detail  *)
(* scales.                                                                 *)
(***************************************************************************)
InitView ==
  /\ coll = NewCollision(0, 0, 2 * Milli, 2 * Milli, 2, 2)
  /\ line = LineIdle
  /\ pt = PtIdle
  /\ stamps = 0
  /\ NewLandscape(0, 0, 2 * Milli, 2 * Milli, 0, 2 * Milli)
  /\ NewLandscapeRaw
  /\ NewLandscapeEdit(NoImage)
  /\ mesh = NoMesh
  /\ last = LastNone

\* Camera positions, and detail scales <<kn, kd>> for kn/kd.
Cameras == {<<0, 0, 0>>, <<2 * Milli, 0, 0>>}
DetailScales == {<<1, 1>>, <<1, 2>>}

NextView ==
  \/ (map_height = Null /\ SetHeightMap(Zero4, SaddleMap, 2, 2, 1, 1, 8, 0, Soil4))
  \/ SetObjects(Objects4, 2, 2)
  \/ \E c \in Cameras, k \in DetailScales : CollectLandscape(c[1], c[2], c[3], k[1], k[2])
  \/ \E c \in Cameras, k \in DetailScales : Update(c[1], c[2], c[3], k[1], k[2])

SpecView == InitView /\ [][NextView]_vars

\* setObjectsFile(fileName, w, h) of a second LandscapeEdit, whose file does
\* not exist: the static image o, the same object for every LandscapeEdit,
\* is freed and becomes a zeroed w x h image; its pointer objects is &o too.
OtherSetObjectsFile(w, h) ==
  /\ other = Null
  /\ o' = [width |-> w, height |-> h, data |-> [i \in 0..(w * h - 1) |-> 0]]
  /\ other' = <<"o">>
  /\ edited' = [op |-> "other.setObjectsFile", n |-> edited.n, arg |-> <<w, h>>,
                before |-> o, saved |-> "none", refreshed |-> FALSE, fresh |-> FALSE]
  /\ UNCHANGED <<mesh, objects, file, collVars, landVars, rawVars, last>>

\* placeObject(pos, objectId) of the second LandscapeEdit, which was
\* constructed on the same Landscape and LandscapeRaw: it writes through
\* its pointer, saves to its own file and refreshes.
OtherPlaceObject(x, z, objectId) ==
  /\ other # Null /\ map_height # Null /\ edited.n < MaxEdits
  /\ LET px == CellOf(x, minX, maxX, o.width)
         pz == CellOf(z, minZ, maxZ, o.height)
         data == placeObjectData(o, px, pz, objectId)
     IN /\ ~(OutOfRaster(px, o.width) \/ OutOfRaster(pz, o.height))
        /\ o' = [o EXCEPT !.data = data]
        /\ edited' = [op |-> "other.placeObject", n |-> edited.n + 1,
                      arg |-> <<x, z, objectId>>, before |-> o, saved |-> "ok",
                      refreshed |-> TRUE, fresh |-> edited.fresh]
        /\ refreshObjects([o EXCEPT !.data = data])
  /\ UNCHANGED <<mesh, objects, other, file>>

(***************************************************************************)
(* SpecEdit: a LandscapeEdit on a Landscape over 0..8 x 0..8 with the      *)
(* saddle as its heightmap and a 4x4 image of objects, which is in the     *)
(* file or not when setObjectsFile loads it.                               *)
(***************************************************************************)
\* The image in the file: an object of type 1 in the cell (1, 1) with
\* g, b and a set, one of type 4 in the cell (3, 2), and a pixel with R = 3,
\* which is no object, in the cell (0, 3).
StoredImage ==
  [width |-> 4, height |-> 4,
   data |-> [i \in 0..15 |-> CASE i = 5 -> Pixel(6, 10, 20, 1)
                               [] i = 11 -> Pixel(16, 0, 0, 0)
                               [] i = 12 -> Pixel(3, 0, 0, 0)
                               [] OTHER -> 0]]

InitEdit ==
  /\ coll = NewCollision(0, 0, 8 * Milli, 8 * Milli, 2, 2)
  /\ line = LineIdle
  /\ pt = PtIdle
  /\ stamps = 0
  /\ NewLandscape(0, 0, 8 * Milli, 8 * Milli, 0, 2 * Milli)
  /\ NewLandscapeRaw
  /\ \E f \in {NoImage, StoredImage} : NewLandscapeEdit(f)
  /\ mesh = NoMesh
  /\ last = LastNone

\* Positions <<x, z>>: in the cells (0, 1) and (3, 3), and beyond maxX.
EditPositions == {<<500, 2500>>, <<7900, 7900>>, <<8 * Milli, 2 * Milli>>}

NextEdit ==
  \/ (map_height = Null /\ SetHeightMap(Zero4, SaddleMap, 2, 2, 1, 1, 8, 0, Soil4))
  \/ SetObjectsFile(4, 4)
  \/ RefreshObjects
  \/ \E p \in EditPositions, id \in {64, 68} : PlaceObject(p[1], p[2], id)
  \/ \E p \in EditPositions : RotateObjectY(p[1], p[2], 63)
  \/ \E p \in EditPositions : RemoveObjects(p[1], p[2])

SpecEdit == InitEdit /\ [][NextEdit]_vars

(***************************************************************************)
(* SpecMesh: preprocessMesh on meshes of four positions and up to MaxParts *)
(* parts.                                                                  *)
(***************************************************************************)
MaxParts == 3

MeshPositions ==
  <<<<0, 0, 0>>, <<2 * Milli, Milli, 0>>, <<-Milli, 3 * Milli, Milli>>,
    <<Milli, -2 * Milli, 2 * Milli>>>>

\* The faces of a part: none, a face without vertices, a triangle, a line
\* and a point, two faces.
MeshParts ==
  {<<>>, <<<<>>>>, <<<<0, 1, 2>>>>, <<<<1, 3>>>>, <<<<3>>>>, <<<<0, 1>>, <<2>>>>}

RECURSIVE SeqsUpTo(_, _)
SeqsUpTo(S, n) ==
  IF n = 0 THEN {<<>>}
  ELSE SeqsUpTo(S, n - 1) \cup {Append(q, e) : q \in SeqsUpTo(S, n - 1), e \in S}

InitMesh ==
  /\ coll = NewCollision(0, 0, 2 * Milli, 2 * Milli, 2, 2)
  /\ line = LineIdle
  /\ pt = PtIdle
  /\ stamps = 0
  /\ NewLandscape(0, 0, 2 * Milli, 2 * Milli, 0, 2 * Milli)
  /\ NewLandscapeRaw
  /\ NewLandscapeEdit(NoImage)
  /\ last = LastNone
  /\ \E parts \in SeqsUpTo(MeshParts, MaxParts) : mesh = NewMesh(MeshPositions, parts)

NextMesh == PreprocessMesh

SpecMesh == InitMesh /\ [][NextMesh]_vars

(***************************************************************************)
(* SpecEditors: two LandscapeEdit objects on the same Landscape.           *)
(***************************************************************************)
InitEditors == InitEdit

NextEditors ==
  \/ (map_height = Null /\ SetHeightMap(Zero4, SaddleMap, 2, 2, 1, 1, 8, 0, Soil4))
  \/ SetObjectsFile(4, 4)
  \/ OtherSetObjectsFile(2, 2)
  \/ \E id \in {64, 68} : PlaceObject(500, 2500, id)
  \/ \E id \in {5, 68} : OtherPlaceObject(7900, 7900, id)
  \/ RemoveObjects(500, 2500)

SpecEditors == InitEditors /\ [][NextEditors]_vars

(***************************************************************************)
(*                    Claims about LandscapeCollision                      *)
(***************************************************************************)
LineArgs == <<line.x0, line.z0, line.x1, line.z1>>

\* The k-th position the loop of collideLine reaches (k = 0 is the start).
SteppedX(k) == line.x0 + k * StepX
SteppedZ(k) == line.z0 + k * StepZ
\* It lies on the segment: its distance k*step from the start is at most d.
OnSegment(k) == k * StepLen <= line.d
\* The index of the first position beyond the end point.
FirstBeyond == line.d \div StepLen + 1
\* collideLine ran its loop: the start was free and d >= 0.00001.
LoopDone == line.pc = "done" /\ line.n >= 1

\* C3: collideLine from a solid start (sample >= 128, which includes a start
\* outside the grid) returns false for every end point, and leaves the four
\* outputs (hit x, hit z, normal x, normal z) at 0.
C3_SolidStartNoHit ==
  (line.pc # "idle" /\ isPoint(line.x0, line.z0))
    => /\ line.pc = "done"
       /\ line.ret = FALSE
       /\ line.xh = 0 /\ line.zh = 0 /\ line.xn = 0 /\ line.zn = 0

\* Witness of C3: a call returned whose start is solid by the field's data
\* (inside the grid, not the sentinel) and whose end point differs from it.
C3_Witness ==
  /\ line.pc = "done"
  /\ isPoint(line.x0, line.z0)
  /\ point(line.x0, line.z0) < 255 * PointDen
  /\ line.d > 0

C5_DiscMissReturnsNone ==
  (line.pc = "done" /\ stamps >= 1 /\ LineArgs = DiscMissRay) => line.ret = FALSE

\* C5 amended: on that field raycast_line(0,0 -> 10,0) misses the disc but
\* returns a hit: the ray runs into column W-1 = 99 (x >= 9.9), where sample
\* returns the 255 sentinel; the hit position is the last stepped position
\* before x = 9.9, on z = 0.
C5_DiscMissHitsSentinel ==
  (line.pc = "done" /\ stamps >= 1 /\ LineArgs = DiscMissRay)
    => /\ line.ret = TRUE
       /\ line.zh = 0
       /\ 9900 - StepLen <= line.xh /\ line.xh < 9900
       /\ \A i \in 0..199 : coll.data[i] = 0

\* Witness of C5: the scenario call has returned.
C5_Witness == line.pc = "done" /\ stamps >= 1 /\ LineArgs = DiscMissRay

\* C6: whenever collideLine returns true, the hit position (xh,zh) is not
\* solid.
C6_HitPositionFree ==
  (line.pc = "done" /\ line.ret = TRUE) => ~isPoint(line.xh, line.zh)

\* Witness of C6: a hit after at least two loop iterations.
C6_Witness == line.pc = "done" /\ line.ret = TRUE /\ line.n >= 2

\* C7: point(x,z) is 255 when the corner (c,r) = (xCoord(x), zCoord(z)) has
\* c < 0, r < 0, c >= W-1 or r >= H-1; otherwise it is the bilinear
\* interpolation of the cells (c,r),(c+1,r),(c,r+1),(c+1,r+1); isPoint holds
\* exactly when that value is >= 128.  (Values are numerators over PointDen.)
C7_SampleBilinearOrSentinel ==
  pt.pc = "done" =>
    LET W == coll.width
        H == coll.height
        c == ((pt.x - coll.minX) * W) \div (coll.maxX - coll.minX)
        r == ((pt.z - coll.minZ) * H) \div (coll.maxZ - coll.minZ)
        fx == (pt.x - coll.minX) - c * CellX
        fz == (pt.z - coll.minZ) - r * CellZ
    IN /\ IF c < 0 \/ r < 0 \/ c >= W - 1 \/ r >= H - 1
          THEN pt.v = 255 * PointDen
          ELSE pt.v = (CellX - fx) * (CellZ - fz) * coll.data[c + r * W]
                      + fx * (CellZ - fz) * coll.data[c + 1 + r * W]
                      + (CellX - fx) * fz * coll.data[c + (r + 1) * W]
                      + fx * fz * coll.data[c + 1 + (r + 1) * W]
       /\ pt.solid <=> (pt.v >= 128 * PointDen)

\* Witness of C7: a sample strictly between cells whose value is interpolated
\* (neither 0 nor a cell value at a corner).
C7_Witness ==
  /\ pt.pc = "done"
  /\ (pt.x - coll.minX) % CellX # 0 /\ (pt.z - coll.minZ) % CellZ # 0
  /\ pt.v > 0 /\ pt.v < 255 * PointDen
  /\ pt.v % PointDen # 0

(***************************************************************************)
(*                  Claims about Landscape and LandscapeRaw                *)
(***************************************************************************)
\* The elements of the master list within reach of the camera of the last
\* collecting call: (e.x-cx)^2 + (e.y-cy)^2 + (e.z-cz)^2 <
\* e.distanceThresholdSquared * kn/kd.
WithinReach ==
  {e \in 0..(Len(scape) - 1) :
     ( (scape[e + 1].x - last.arg[1]) * (scape[e + 1].x - last.arg[1])
     + (scape[e + 1].y - last.arg[2]) * (scape[e + 1].y - last.arg[2])
     + (scape[e + 1].z - last.arg[3]) * (scape[e + 1].z - last.arg[3]) ) * last.arg[5]
       < scape[e + 1].distanceThresholdSquared * last.arg[4]}

\* C1: after collectLandscape the caller's array holds exactly the elements
\* of the master list within reach of the camera, each once and in the order
\* of the master list; nothing that was in the array before the call is left.
C1_CollectExactInOrder ==
  last.op = "collectLandscape" =>
    /\ \A i, j \in DOMAIN out : i < j => out[i] < out[j]
    /\ {out[i] : i \in DOMAIN out} = WithinReach

\* Reached: a collect into an array that held the result of an earlier
\* collect, which drops some of the old entries and keeps some elements of
\* the master list out.
C1_Witness ==
  /\ last.op = "collectLandscape"
  /\ last.ret # <<>> /\ out # <<>>
  /\ Len(out) < Len(scape)
  /\ \E i \in DOMAIN last.ret : \A j \in DOMAIN out : out[j] # last.ret[i]

\* The squared camera distance of the i-th collected element for the camera
\* of the last update, and the same truncated to whole world units.
ElementDist2(i) == Dist2(scape[elements[i] + 1], eSortCX, eSortCY, eSortCZ)
ElementIntDist2(i) == ElementDist2(i) \div (Milli * Milli)

\* C2 as stated: after update the collected elements are ordered by
\* descending camera distance, farthest first.
C2_FarthestFirst ==
  last.op = "update" =>
    \A i, j \in DOMAIN elements : i < j => ElementDist2(i) >= ElementDist2(j)

\* C2: after update the collected elements are ordered nearest first by
\* their squared camera distance truncated to an integer.
C2_NearestFirstTruncated ==
  last.op = "update" =>
    \A i, j \in DOMAIN elements : i < j => ElementIntDist2(i) <= ElementIntDist2(j)

\* Reached: an update that collects elements at three different truncated
\* distances, not in the order of the master list.
C2_Witness ==
  /\ last.op = "update"
  /\ \E i, j, k \in DOMAIN elements :
       /\ ElementIntDist2(i) < ElementIntDist2(j)
       /\ ElementIntDist2(j) < ElementIntDist2(k)
  /\ \E i, j \in DOMAIN elements : i < j /\ elements[i] > elements[j]

\* The height scenario: the saddle is the heightmap and the last call asked
\* for the height at (x, z).
SaddleHeightAt(x, z) ==
  /\ last.op = "getHeight" /\ last.arg = <<x, z, 0, 0>>
  /\ map_height = SaddleMap /\ map_height_w = 2 /\ map_height_h = 2

\* C8 as stated: in the height scenario getHeight(0.5, 0.5) returns 50.0
\* within 0.01.
C8_CentreIsFifty ==
  SaddleHeightAt(500, 500) => last.ret >= 50 * Milli - 10 /\ last.ret <= 50 * Milli + 10

\* C8: in the height scenario getHeight(0.5, 0.5) returns 0.0, the value of
\* the cell (1, 1), which lies at (0.5, 0.5); 50.0 within 0.01 is what
\* getHeight(0.25, 0.25) returns, halfway between the cells.
C8_CentreIsCellValue ==
  /\ SaddleHeightAt(500, 500) => last.ret = 0
  /\ SaddleHeightAt(250, 250) =>
       last.ret >= 50 * Milli - 10 /\ last.ret <= 50 * Milli + 10

\* Reached: the height scenario with getHeight(0.5, 0.5) answered.
C8_Witness == SaddleHeightAt(500, 500) /\ scape # <<>>

\* The calls that generate elements.
Generators ==
  {"setHeightMap", "setObjects", "setTrees", "setGrass", "setFlowers", "setStones",
   "setWater", "setRoads"}

\* C9: a generating call only appends to the master list: the elements that
\* were there before the call are still there, unchanged, at their indices.
C9_GeneratorsOnlyAppend ==
  last.op \in Generators =>
    /\ Len(scape) >= Len(last.before)
    /\ SubSeq(scape, 1, Len(last.before)) = last.before

\* Reached: a generating call other than the first that finds elements in
\* the list, changes the heightmap under them and adds more than one.
C9_Witness ==
  /\ last.op \in {"setStones", "setRoads"}
  /\ last.before # <<>>
  /\ Len(scape) > Len(last.before) + 1

\* C10: after removeElementsWithType(k) no element of kind k is left, and
\* removing kind k once more leaves the list as it is.
C10_RemoveIdempotent ==
  last.op = "removeElementsWithType" =>
    /\ \A i \in DOMAIN scape : scape[i].type # last.arg[1]
    /\ removeElementsWithType(scape, last.arg[1]) = scape

\* Reached: a removal from a list that held two elements of the kind side
\* by side and elements of other kinds, which it keeps.
C10_Witness ==
  /\ last.op = "removeElementsWithType"
  /\ scape # <<>> /\ Len(scape) < Len(last.before)
  /\ \E i \in 1..(Len(last.before) - 1) :
       last.before[i].type = last.arg[1] /\ last.before[i + 1].type = last.arg[1]

\* C11: after any generating calls every element of the master list lies
\* within the world bounds in x and z and has a cutoff that is not negative.
\* (It fails on the elements that setHeightMap leaves unassigned when it
\* writes more elements than it reserved.)
C11_ElementsInBounds ==
  \A i \in DOMAIN scape :
    /\ minX <= scape[i].x /\ scape[i].x <= maxX
    /\ minZ <= scape[i].z /\ scape[i].z <= maxZ
    /\ scape[i].distanceThresholdSquared >= 0

\* The positions in elements of the collected elements whose kind is Height,
\* Road, Stone or Water, in collected order.
RECURSIVE GroundPositions(_)
GroundPositions(i) ==
  IF i > Len(elements) THEN <<>>
  ELSE (IF scape[elements[i] + 1].type \in
            {LANDSCAPE_TYPE_HEIGHT, LANDSCAPE_TYPE_ROAD, LANDSCAPE_TYPE_STONE,
             LANDSCAPE_TYPE_WATER}
        THEN <<i>> ELSE <<>>) \o GroundPositions(i + 1)

\* The element behind the k-th entry of the view arrays.
GroundElement(k) == scape[elements[GroundPositions(1)[k]] + 1]

\* C12: after update the view arrays hold one entry per collected element
\* of kind Height, Road, Stone or Water and none for the other kinds, in
\* collected order: types, vertices and parameters have the same length n,
\* points has length 2n, and entry k of each comes from the same element.
C12_ViewArraysAligned ==
  last.op = "update" =>
    /\ Len(types) = Len(GroundPositions(1))
    /\ Len(vertices) = Len(types) /\ Len(parameters) = Len(types)
    /\ Len(points) = 2 * Len(types)
    /\ \A k \in DOMAIN types :
         /\ types[k] = GroundElement(k).type
         /\ vertices[k] = <<GroundElement(k).x, GroundElement(k).y, GroundElement(k).z>>
         /\ points[2 * k - 1] = GroundElement(k).x /\ points[2 * k] = GroundElement(k).z
         /\ parameters[k] = <<(GroundElement(k).v0 * Milli) \div 255,
                              (GroundElement(k).v1 * Milli) \div 255,
                              (GroundElement(k).v2 * Milli) \div 255>>

\* Reached: an update over arrays that an earlier update had filled, which
\* collects objects next to heights and leaves arrays of another size.
C12_Witness ==
  /\ last.op = "update"
  /\ last.ret > 0 /\ Len(points) > 0 /\ Len(points) # last.ret
  /\ Len(types) < Len(elements)

\* The number of times t occurs in the sequence s.
Occurrences(s, t) == Cardinality({i \in DOMAIN s : s[i] = t})

\* C13: after update the triangles are sorted by their first vertex index
\* and are a permutation of the triangles the triangulator gives for the
\* points of this update.
C13_TrianglesSorted ==
  last.op = "update" =>
    /\ \A i \in 1..(Len(triangles) - 1) : triangles[i][1] <= triangles[i + 1][1]
    /\ \E tri \in Delaunator(points) :
         /\ Len(tri) = Len(triangles)
         /\ \A i \in DOMAIN tri : Occurrences(triangles, tri[i]) = Occurrences(tri, tri[i])

\* Reached: an update with at least two triangles, after an update that
\* had left points and triangles of another number.
C13_Witness ==
  /\ last.op = "update"
  /\ Len(triangles) >= 2
  /\ last.ret > 0 /\ last.ret # Len(points)

\* The generators that draw from rand() to scatter elements, the elements
\* the last call has added, and what the same call gives on the state st.
Scatterers == {"setTrees", "setGrass", "setFlowers"}
Added == SubSeq(scape, Len(last.before) + 1, Len(scape))
ScatterAgain(st) ==
  CASE last.op = "setTrees" ->
         setTrees(st, last.arg[1], last.arg[2], last.arg[3], last.arg[4], last.arg[5])
    [] last.op = "setGrass" ->
         setGrass(st, last.arg[1], last.arg[2], last.arg[3], last.arg[4], last.arg[5])
    [] last.op = "setFlowers" ->
         setFlowers(st, last.arg[1], last.arg[2], last.arg[3], last.arg[4], last.arg[5])

\* C14: setTrees, setGrass and setFlowers called once more with the same
\* arguments add the same elements again, and on another Landscape with
\* the same heightmap they add the same elements whatever rand() has been
\* used for before.
C14_ScatterRepeats ==
  last.op \in Scatterers =>
    /\ ScatterAgain(St).scape = scape \o Added
    /\ \A r \in {0, 1, 4711} :
         ScatterAgain([scape |-> <<>>, map |-> map_height, rs |-> r]).scape = Added

\* Reached: a scattering call that has added several elements to a list
\* that was not empty and has left rand() in another state than it seeds.
C14_Witness ==
  /\ last.op \in Scatterers
  /\ Len(Added) >= 2 /\ last.before # <<>>
  /\ randState # 0

\* The cells of the raster of the last setObjects call whose object type
\* R/4 is not zero.
ObjectCells ==
  {i \in 0..(last.arg[2] * last.arg[3] - 1) : last.arg[1][i][1] \div 4 # 0}

\* C17: setObjects appends one Object element for each pixel whose object
\* type R/4 is not zero and none for any other, in row-major order, with
\* v0 = R/4, v1 = G/4, v2 = B/4, the world position of the pixel and the
\* height of the heightmap there.
C17_SetObjectsExact ==
  last.op = "setObjects" =>
    /\ Len(Added) = Cardinality(ObjectCells)
    /\ \A i \in ObjectCells :
         LET e == Added[1 + Cardinality({j \in ObjectCells : j < i})]
         IN /\ e.type = LANDSCAPE_TYPE_OBJECT
            /\ e.v0 = last.arg[1][i][1] \div 4
            /\ e.v1 = last.arg[1][i][2] \div 4
            /\ e.v2 = last.arg[1][i][3] \div 4
            /\ e.x = ((maxX - minX) * (i % last.arg[2])) \div last.arg[2] + minX
            /\ e.z = ((maxZ - minZ) * (i \div last.arg[2])) \div last.arg[3] + minZ
            /\ e.y = getHeight(map_height, e.x, e.z, 0, 0)

\* Reached: a setObjects call on a list that was not empty, with a raster
\* that holds several objects, an empty pixel and a pixel whose R is below 4.
C17_Witness ==
  /\ last.op = "setObjects" /\ last.before # <<>>
  /\ Len(Added) >= 2
  /\ \E i \in 0..(last.arg[2] * last.arg[3] - 1) :
       last.arg[1][i][1] # 0 /\ last.arg[1][i][1] \div 4 = 0
  /\ \E i \in 0..(last.arg[2] * last.arg[3] - 1) : last.arg[1][i][1] = 0

(***************************************************************************)
(*                 More claims about LandscapeCollision                    *)
(***************************************************************************)
\* C19: placeCircle is idempotent: on every field, placing a disc that has
\* just been placed leaves every cell as it is.
C19_PlaceCircleIdempotent ==
  \A c \in Discs :
    placeCircleOn(placeCircleOn(coll.data, c[1], c[2], c[3]), c[1], c[2], c[3])
      = placeCircleOn(coll.data, c[1], c[2], c[3])

\* Reached: a field on which one disc has been placed over other content
\* (placing it changes nothing any more) while another disc would still
\* raise cells.
C19_Witness ==
  /\ stamps = MaxStamps
  /\ \E c, d \in Discs :
       /\ placeCircleOn(coll.data, c[1], c[2], c[3]) = coll.data
       /\ placeCircleOn(coll.data, d[1], d[2], d[3]) # coll.data
       /\ \E i \in DOMAIN coll.data :
            /\ coll.data[i] > 0
            /\ coll.data[i] > placeCircleOn([j \in DOMAIN coll.data |-> 0], c[1], c[2], c[3])[i]
       /\ \E i \in DOMAIN coll.data :
            /\ coll.data[i] > 0 /\ coll.data[i] < 255
            /\ coll.data[i] = placeCircleOn([j \in DOMAIN coll.data |-> 0], c[1], c[2], c[3])[i]

\* The cell indices of a getHeight call at the clamped position x in lo..hi
\* with the offset xa on a heightmap of n cells.
ReadIndices(x, lo, hi, xa, n) ==
  {CellIndex0(((x - lo) * n) \div (hi - lo) + xa, n),
   CellIndex1(CellIndex0(((x - lo) * n) \div (hi - lo) + xa, n), n)}

\* C20: getHeight at a point outside the world bounds returns what it
\* returns at the point clamped to minX..maxX-0.001 x minZ..maxZ-0.001; with
\* every xa and za the cells it reads lie in 0..map_height_w-1 x
\* 0..map_height_h-1, and the result lies within minY..maxY.
C20_OutsideIsClampedBorder ==
  last.op = "getHeight" =>
    LET cx == Max(minX, Min(last.arg[1], maxX - 1))
        cz == Max(minZ, Min(last.arg[2], maxZ - 1))
    IN /\ last.ret = getHeight(map_height, cx, cz, last.arg[3], last.arg[4])
       /\ \A xi \in ReadIndices(cx, minX, maxX, last.arg[3], map_height_w),
             zi \in ReadIndices(cz, minZ, maxZ, last.arg[4], map_height_h) :
            /\ 0 <= xi /\ xi <= map_height_w - 1
            /\ 0 <= zi /\ zi <= map_height_h - 1
            /\ (xi + zi * map_height_w) \in DOMAIN map_height
       /\ minY <= last.ret /\ last.ret <= maxY

\* Reached: a query below minX with offsets that lead below column 0 and
\* beyond the last row, which returns a height above minY.
C20_Witness ==
  /\ last.op = "getHeight"
  /\ last.arg[1] < minX /\ last.arg[3] < 0 /\ last.arg[4] > 0
  /\ last.ret > minY

\* C21 as stated: setTrees, setGrass and setFlowers each leave the rand()
\* stream 7 draws per cell of the raster behind srand(0), whatever mask and
\* layer hold.
C21_SevenDrawsPerCell ==
  last.op \in {"setTrees", "setGrass", "setFlowers"} =>
    randState = RandSkip(0, 7 * last.arg[3] * last.arg[4])

\* C21 amended: setTrees leaves the stream 6 draws per cell behind srand(0),
\* setGrass and setFlowers 7 draws per cell, whatever mask and layer hold.
C21_DrawsPerCell ==
  /\ last.op = "setTrees" => randState = RandSkip(0, 6 * last.arg[3] * last.arg[4])
  /\ last.op \in {"setGrass", "setFlowers"} =>
       randState = RandSkip(0, 7 * last.arg[3] * last.arg[4])

\* Reached: a setTrees call whose mask forbids one cell and allows others,
\* which has placed trees.
C21_Witness ==
  /\ last.op = "setTrees"
  /\ \E i \in DOMAIN last.arg[1] : last.arg[1][i] # 0
  /\ Len(scape) > Len(last.before)
  /\ RandSkip(0, 6 * last.arg[3] * last.arg[4]) # RandSkip(0, 7 * last.arg[3] * last.arg[4])

\* The largest power of two that divides c; for c = 0, which every power of
\* two divides, the size n of the map.
RECURSIVE PowerOfTwoIn(_)
PowerOfTwoIn(c) == IF c % 2 = 1 THEN 1 ELSE 2 * PowerOfTwoIn(c \div 2)
PowerOfTwoDivisor(c, n) == IF c = 0 THEN n ELSE PowerOfTwoIn(c)

\* The cutoff the specification gives for the cell (c, r) of a w x h map:
\* (750 * distFact * min(tx/w, tz/h))^2.
CutoffOf(c, r, w, h, distFact) ==
  SatSq(MulDiv(Min((PowerOfTwoDivisor(c, w) * Milli) \div w,
                   (PowerOfTwoDivisor(r, h) * Milli) \div h) * 750,
               distFact, Milli))

\* C22: every Height element that a setHeightMap call at step 1 has emitted
\* for a cell (c, r) other than an oversized border cell has the cutoff
\* (750 * distFact * min(tx/W, tz/H))^2, with tx and tz the largest powers
\* of two that divide c and r.
C22_CutoffFromPowerOfTwo ==
  (last.op = "setHeightMap" /\ last.arg[3] = 1 /\ last.arg[4] = 1) =>
    \A i \in DOMAIN Added :
      \A c \in 0..(last.arg[1] - 1), r \in 0..(last.arg[2] - 1) :
        ( /\ Added[i].x = ((maxX - minX) * c) \div last.arg[1] + minX
          /\ Added[i].z = ((maxZ - minZ) * r) \div last.arg[2] + minZ
          /\ ~(HeightBorder(c, r, last.arg[1], last.arg[2], 1, 1) /\ (c + r) % 8 = 0) )
        => Added[i].distanceThresholdSquared
             = CutoffOf(c, r, last.arg[1], last.arg[2], last.arg[5])

\* C23 as stated: with left < thresh <= center hitThresh returns
\* -(center - thresh) / ((thresh - left) + (center - thresh)) - 1, a value in
\* -1..0; with left >= thresh and right < thresh a value in 0..1; otherwise 0.
C23_HitThreshAsStated ==
  last.op = "hitThresh" =>
    LET center == last.arg[1]
        left == last.arg[2]
        right == last.arg[3]
        thresh == last.arg[4]
    IN IF left < thresh /\ thresh <= center
       THEN /\ last.ret = TruncDiv(-(center - thresh) * Milli,
                                   (thresh - left) + (center - thresh)) - Milli
            /\ -Milli <= last.ret /\ last.ret <= 0
       ELSE IF left >= thresh /\ right < thresh
       THEN 0 <= last.ret /\ last.ret <= Milli
       ELSE last.ret = 0

\* C23 amended: for thresh <= center, with left < thresh hitThresh returns
\* (thresh - left) / ((thresh - left) + (center - thresh)) - 1, a value in
\* -1..0; with left >= thresh and right < thresh it returns
\* (center - thresh) / (center - right), a value in 0..1; otherwise 0.
C23_HitThreshBelowCenter ==
  (last.op = "hitThresh" /\ last.arg[4] <= last.arg[1]) =>
    LET center == last.arg[1]
        left == last.arg[2]
        right == last.arg[3]
        thresh == last.arg[4]
    IN IF left < thresh
       THEN /\ last.ret = TruncDiv((thresh - left) * Milli,
                                   (thresh - left) + (center - thresh)) - Milli
            /\ -Milli <= last.ret /\ last.ret <= 0
       ELSE IF right < thresh
       THEN /\ last.ret = TruncDiv((center - thresh) * Milli, center - right)
            /\ 0 <= last.ret /\ last.ret <= Milli
       ELSE last.ret = 0

\* Reached: the example of the source, hitThresh(256, 128, 512, 192), which
\* returns -0.5.
C23_Witness ==
  /\ last.op = "hitThresh"
  /\ last.arg = <<256, 128, 512, 192>>
  /\ last.ret = -(Milli \div 2)

\* C24: after update two collected elements at the same camera distance
\* stand in the order of their indices in the master list.
C24_TiesByIndex ==
  last.op = "update" =>
    \A i, j \in DOMAIN elements :
      (i < j /\ ElementDist2(i) = ElementDist2(j)) => elements[i] < elements[j]

\* The layer value that the loops of setStones and setRoads read for the
\* cell i of the heightmap: map[rx + rz*w] of the last call.
LayerValueOf(i) ==
  last.arg[1][((i % map_height_w) * last.arg[2]) \div map_height_w
              + (((i \div map_height_w) * last.arg[3]) \div map_height_h) * last.arg[2]]

\* C25: every Stone, Road and pad element that setStones or setRoads has
\* emitted has y = getHeight(x, z) on the heightmap as the call leaves it;
\* setStones lowers no cell of the heightmap and setRoads raises none, and
\* the cells whose layer value is below threshOuter are as before the call.
C25_HeightmapBeforeElements ==
  last.op \in {"setStones", "setRoads"} =>
    /\ \A i \in DOMAIN Added :
         Added[i].type \in {LANDSCAPE_TYPE_STONE, LANDSCAPE_TYPE_ROAD, LANDSCAPE_TYPE_HEIGHT}
           => Added[i].y = getHeight(map_height, Added[i].x, Added[i].z, 0, 0)
    /\ \A i \in DOMAIN map_height :
         /\ last.op = "setStones" => map_height[i] >= last.map[i]
         /\ last.op = "setRoads" => map_height[i] <= last.map[i]
         /\ LayerValueOf(i) < last.arg[4] => map_height[i] = last.map[i]

(***************************************************************************)
(*                       Claims about LandscapeEdit                        *)
(***************************************************************************)
\* C15: when savePNG fails in placeObject, rotateObjectY or removeObjects,
\* the image in memory is what it was before the call.
C15_ImageKeptOnSaveFailure ==
  edited.saved = "failed" => o.data = edited.before.data

\* The cells of the image whose object type R/4 is not zero, and the Object
\* elements of the master list in its order.
ObjectPixels == {i \in DOMAIN o.data : Channel(o.data[i], 0) \div 4 # 0}
ObjectElements == SelectSeq(scape, LAMBDA e : e.type = LANDSCAPE_TYPE_OBJECT)

\* C16: once refreshObjects has run on the loaded image, after every call
\* of placeObject, rotateObjectY and removeObjects the Object elements of
\* the master list are the pixels whose object type R/4 is not zero, one
\* element per pixel in row-major order behind the other elements, and the
\* view is the one update gives for this master list, the camera and the
\* details.
C16_ObjectsFollowImage ==
  edited.fresh =>
    /\ Len(ObjectElements) = Cardinality(ObjectPixels)
    /\ \A i \in ObjectPixels :
         LET e == ObjectElements[1 + Cardinality({j \in ObjectPixels : j < i})]
         IN /\ e.v0 = Channel(o.data[i], 0) \div 4
            /\ e.v1 = Channel(o.data[i], 1) \div 4
            /\ e.v2 = Channel(o.data[i], 2) \div 4
            /\ e.x = ((maxX - minX) * (i % o.width)) \div o.width + minX
            /\ e.z = ((maxZ - minZ) * (i \div o.width)) \div o.height + minZ
    /\ \A k \in 1..(Len(scape) - 1) :
         scape[k].type = LANDSCAPE_TYPE_OBJECT => scape[k + 1].type = LANDSCAPE_TYPE_OBJECT
    /\ elements \in collectElements(<<>>, scape, EditCamera[1], EditCamera[2], EditCamera[3],
                                    EditDetails[1], EditDetails[2])
    /\ Len(types) = Len(GroundPositions(1))
    /\ \A k \in DOMAIN types :
         vertices[k] = <<GroundElement(k).x, GroundElement(k).y, GroundElement(k).z>>

\* Reached: the second of two editing calls after a refresh, which has
\* changed an image that held objects, leaves objects in it, and an object
\* is among the collected elements.
C16_Witness ==
  /\ edited.fresh /\ edited.n = 2
  /\ edited.op \in {"placeObject", "rotateObjectY", "removeObjects"}
  /\ o.data # edited.before.data
  /\ \E i \in DOMAIN edited.before.data : Channel(edited.before.data[i], 0) \div 4 # 0
  /\ Cardinality(ObjectPixels) >= 2
  /\ \E k \in DOMAIN elements : scape[elements[k] + 1].type = LANDSCAPE_TYPE_OBJECT

\* The cells of the 5x5 box around the position of the last rotateObjectY
\* call that lie in the image and whose R was not zero before the call.
RotatedCells ==
  {i \in DOMAIN edited.before.data :
     /\ Abs((i % o.width) - CellOf(edited.arg[1], minX, maxX, o.width)) <= 2
     /\ Abs((i \div o.width) - CellOf(edited.arg[2], minZ, maxZ, o.height)) <= 2
     /\ Channel(edited.before.data[i], 0) # 0}

\* C18: rotateObjectY(pos, rotation) with rotation in 0..63 sets G to
\* rotation*4 + 2 in the cells of the image within the 5x5 box around pos
\* whose R is not zero, keeps their R, B and A and every other cell, and
\* runs savePNG and refreshObjects exactly if there is such a cell.
C18_RotateSetsGreenInBox ==
  edited.op = "rotateObjectY" =>
    /\ \A i \in DOMAIN o.data :
         IF i \in RotatedCells
         THEN /\ Channel(o.data[i], 1) = edited.arg[3] * 4 + 2
              /\ \A k \in {0, 2, 3} : Channel(o.data[i], k) = Channel(edited.before.data[i], k)
         ELSE o.data[i] = edited.before.data[i]
    /\ (edited.saved # "none") = (RotatedCells # {})
    /\ edited.refreshed = (RotatedCells # {})

\* Reached: a rotateObjectY call that has changed a cell with G, B and A
\* set and a cell whose R is below 4, with a cell of the image outside the
\* box that holds an object; and a call that has found no cell.
C18_Witness ==
  /\ edited.op = "rotateObjectY" /\ edited.arg[3] = 63
  /\ \E i \in RotatedCells :
       Channel(edited.before.data[i], 0) < 4 /\ o.data[i] # edited.before.data[i]
  /\ \E i \in RotatedCells :
       Channel(o.data[i], 2) # 0 /\ Channel(o.data[i], 3) # 0
  /\ \E i \in DOMAIN o.data : i \notin RotatedCells /\ Channel(o.data[i], 0) # 0

\* The cell of the image that covers the position of the last placeObject
\* call, and the Object elements of the master list at that cell.
PlacedCell ==
  CellOf(edited.arg[1], minX, maxX, o.width)
    + CellOf(edited.arg[2], minZ, maxZ, o.height) * o.width
PlacedInside ==
  /\ edited.op = "placeObject"
  /\ minX <= edited.arg[1] /\ edited.arg[1] < maxX
  /\ minZ <= edited.arg[2] /\ edited.arg[2] < maxZ
ObjectsAtPlacedCell ==
  {k \in DOMAIN scape :
     /\ scape[k].type = LANDSCAPE_TYPE_OBJECT
     /\ scape[k].x = ((maxX - minX) * (PlacedCell % o.width)) \div o.width + minX
     /\ scape[k].z = ((maxZ - minZ) * (PlacedCell \div o.width)) \div o.height + minZ}

\* C26 as stated: after placeObject(pos, objectId) with pos inside the world
\* bounds the cell that covers pos holds R = (objectId & 63)*4 + 2 and
\* G = B = A = 0, every other cell is as before, and the master list holds
\* an Object element at that cell with v0 = objectId & 63, for every
\* objectId.
C26_PlacedObjectAppears ==
  PlacedInside =>
    /\ o.data[PlacedCell] = Pixel((edited.arg[3] % 64) * 4 + 2, 0, 0, 0)
    /\ \A i \in DOMAIN o.data : i # PlacedCell => o.data[i] = edited.before.data[i]
    /\ \E k \in ObjectsAtPlacedCell : scape[k].v0 = edited.arg[3] % 64

\* C26 amended: the cell and the other cells as stated; the master list
\* holds exactly one Object element at that cell, with v0 = objectId & 63,
\* if objectId & 63 is not 0, and none at that cell if it is 0.
C26_PlacedObjectUnlessZero ==
  PlacedInside =>
    /\ o.data[PlacedCell] = Pixel((edited.arg[3] % 64) * 4 + 2, 0, 0, 0)
    /\ \A i \in DOMAIN o.data : i # PlacedCell => o.data[i] = edited.before.data[i]
    /\ IF edited.arg[3] % 64 # 0
       THEN /\ Cardinality(ObjectsAtPlacedCell) = 1
            /\ \A k \in ObjectsAtPlacedCell : scape[k].v0 = edited.arg[3] % 64
       ELSE ObjectsAtPlacedCell = {}

\* Reached: placeObject with objectId 64 on a cell that held an object,
\* in an image with another object: the object of the cell is gone.
C26_Witness ==
  /\ PlacedInside /\ edited.arg[3] = 64
  /\ Channel(edited.before.data[PlacedCell], 0) \div 4 # 0
  /\ ObjectElements # <<>>
  /\ ObjectsAtPlacedCell = {}

\* C28 as stated: setHeightMap never writes past the slots it reserved: the
\* number of elements it emits (the k of its closing resize) is at most
\* (w/stepX)*(h/stepZ), also when a step does not divide w or h.
C28_WritesWithinReserved ==
  last.op = "setHeightMap" =>
    Len(scape) - Len(last.before)
      <= setHeightMapReserved(last.arg[1], last.arg[2], last.arg[3], last.arg[4])

(***************************************************************************)
(*                  Claims about two LandscapeEdit objects                 *)
(***************************************************************************)
\* C27 as stated: each LandscapeEdit owns its raster: no setObjectsFile and
\* no placeObject of the second LandscapeEdit changes, frees or replaces
\* the image that the first one reads through its pointer objects.
C27_EditorsOwnRasters ==
  [][(objects # Null /\ edited'.op \in {"other.setObjectsFile", "other.placeObject"})
       => o' = o]_vars

(***************************************************************************)
(*                       Claims about preprocessMesh                       *)
(***************************************************************************)
\* The box of a non-empty sequence of vertices.
BoundsOf(vs) ==
  [bbmin |-> [c \in 1..3 |-> CHOOSE a \in {vs[k][c] : k \in DOMAIN vs} :
                              \A k \in DOMAIN vs : a <= vs[k][c]],
   bbmax |-> [c \in 1..3 |-> CHOOSE a \in {vs[k][c] : k \in DOMAIN vs} :
                              \A k \in DOMAIN vs : a >= vs[k][c]]]

\* The vertices of part i, and those of the parts 1..i.
PartVertices(i) == FaceVertices(mesh.positions, mesh.parts[i])
RECURSIVE VerticesUpTo(_)
VerticesUpTo(i) == IF i = 0 THEN <<>> ELSE VerticesUpTo(i - 1) \o PartVertices(i)

\* C29 as stated: the running bbmin/bbmax is not reset per part: the box
\* stored for part i is the union of the bounds of the vertices of part i
\* and of all earlier parts.
C29_PartBoundsAccumulate ==
  mesh.done =>
    \A i \in DOMAIN mesh.parts :
      VerticesUpTo(i) # <<>> =>
        /\ mesh.bounds[i].minBounding = BoundsOf(VerticesUpTo(i)).bbmin
        /\ mesh.bounds[i].maxBounding = BoundsOf(VerticesUpTo(i)).bbmax

\* C29 amended: the box is started anew at the first vertex of each part:
\* the box stored for a part with a vertex is the bounds of the vertices of
\* that part alone; a part without a vertex gets the box of the part before
\* it, the first part that of the whole mesh.
C29_PartBoundsOwn ==
  mesh.done =>
    \A i \in DOMAIN mesh.parts :
      IF PartVertices(i) # <<>>
      THEN /\ mesh.bounds[i].minBounding = BoundsOf(PartVertices(i)).bbmin
           /\ mesh.bounds[i].maxBounding = BoundsOf(PartVertices(i)).bbmax
      ELSE IF i > 1
      THEN /\ mesh.bounds[i].minBounding = mesh.bounds[i - 1].minBounding
           /\ mesh.bounds[i].maxBounding = mesh.bounds[i - 1].maxBounding
      ELSE /\ mesh.bounds[i].minBounding = mesh.minBounding
           /\ mesh.bounds[i].maxBounding = mesh.maxBounding

\* Reached: a preprocessed mesh of three parts: a triangle, then a point
\* outside the box of the triangle, then a part without faces; the box of
\* the second part is the point.
C29_Witness ==
  /\ mesh.done
  /\ mesh.parts = <<<<<<0, 1, 2>>>>, <<<<3>>>>, <<>>>>
  /\ mesh.bounds[2].minBounding = mesh.positions[4]
  /\ mesh.bounds[2].maxBounding = mesh.positions[4]
  /\ mesh.bounds[3] = mesh.bounds[2]

(***************************************************************************)
(*                 Claims about the loop of collideLine                    *)
(***************************************************************************)
\* ceil(d / step).
StepsAlong(d) == (d + StepLen - 1) \div StepLen

\* From a free start the call has returned after at most ceil(d/step) + 1
\* iterations, each of which advanced by the step, and a segment shorter
\* than 0.00001 returned false without an iteration.
ReturnedInTime ==
  /\ line.pc # "loop"
  /\ LoopDone =>
       /\ line.n <= StepsAlong(line.d) + 1
       /\ line.xp = line.x0 + line.n * StepX
       /\ line.zp = line.z0 + line.n * StepZ
  /\ (line.pc = "done" /\ ~isPoint(line.x0, line.z0) /\ Negligible(line.d))
       => line.n = 0 /\ line.ret = FALSE

\* C30 as stated: collideLine terminates for every field and every finite
\* segment: from a free start the loop advances by the fixed step
\* 0.05 * min(cell_dx, cell_dz) per iteration and returns after at most
\* ceil(length/step) + 1 iterations, with a hit or without; a segment
\* shorter than 0.00001 returns false without stepping.
C30_LineTerminates == line.pc # "idle" => ReturnedInTime

=============================================================================
